---- MODULE Spec2Model ----
(***************************************************************************)
(* go-pretty-toml: the formatter package (Format, formatMap and its three   *)
(* section writers, formatTomlValue) as a state machine.                    *)
(*                                                                          *)
(* Text is a sequence of one-character strings, so that byte-level code     *)
(* (bytes.TrimRight, bytes.HasSuffix, len(k), strings.Repeat) is modelled   *)
(* on bytes.  A value of Go type `any` is a record tagged by `kind`.        *)
(* The recursion of formatMap is an explicit call stack of frames, one      *)
(* frame per active formatMap call.                                         *)
(***************************************************************************)
EXTENDS Integers, Sequences, FiniteSets, TLC

VARIABLES
    data,        \* Format's parameter `data` (the root table)
    indentUnit,  \* Format's parameter `indentUnit`
    pc,          \* "start" before the call of Format, "run" inside it, "done" after it
    stack,       \* the active formatMap calls, innermost last
    internalBuf, \* Format's local `internalBuf`, the `output` of every helper
    err,         \* the error being returned up the call chain (Nil: none)
    result,      \* the error Format returned (Nil: nil)
    written,     \* the bytes the caller's writer has accepted
    writes,      \* the number of Write calls the caller's writer has received
    runs,        \* the number of formatting runs started
    prevData,    \* the document of the previous run (second run only)
    prevOut,     \* the text the previous run wrote (second run only)
    proc,        \* the toml-fmt process: its arguments, locals and position
    env          \* the process's surroundings: the files, stdin, stdout, stderr

\* what no step of Format changes: its arguments, the caller's record of
\* the previous run, and the process and surroundings of the command
caller == <<data, indentUnit, runs, prevData, prevOut, proc, env>>

vars == <<caller, pc, stack, internalBuf, err, result, written, writes>>

Nil == <<>>

\* no command is running: Format is called as a library function
NoProc == [at |-> "none"]
NoEnv == [stdout |-> <<>>]

(***************************************************************************)
(* Bytes.  Ascii lists the bytes the model uses in increasing byte value;   *)
(* Ord is a byte's rank in it, which orders bytes as Go's string            *)
(* comparison does.                                                         *)
(***************************************************************************)
Ascii ==
    << "\t", "\n", " ", "\"", "'", "+", ",", "-", ".",
       "0", "1", "2", "3", "4", "5", "6", "7", "8", "9", ":", "<", "=", ">",
       "A", "B", "C", "D", "E", "I", "K", "N", "O", "P", "T", "U", "W", "Y", "Z",
       "[", "\\", "]", "_",
       "a", "b", "c", "e", "f", "g", "i", "k", "l", "m", "n", "p", "r", "s", "t",
       "u", "x", "y", "z", "{", "}" >>

Ord(c) == CHOOSE i \in 1..Len(Ascii) : Ascii[i] = c

RECURSIVE StrLess(_, _)
StrLess(s, t) ==
    IF s = <<>> THEN t # <<>>
    ELSE IF t = <<>> THEN FALSE
    ELSE IF s[1] = t[1] THEN StrLess(Tail(s), Tail(t))
    ELSE Ord(s[1]) < Ord(t[1])

\* mutant of SortStrings: shorter keys first, byte order among equal lengths
RECURSIVE SortStringsShortlex(_)
SortStringsShortlex(S) ==
    IF S = {} THEN <<>>
    ELSE LET m == CHOOSE k \in S : \A o \in S \ {k} :
                    Len(k) < Len(o) \/ (Len(k) = Len(o) /\ StrLess(k, o))
         IN  <<m>> \o SortStringsShortlex(S \ {m})

\* sort.Strings applied to the keys in S
RECURSIVE SortStrings(_)
SortStrings(S) ==
    IF S = {} THEN <<>>
    ELSE LET m == CHOOSE k \in S : \A o \in S \ {k} : StrLess(k, o)
         IN  <<m>> \o SortStrings(S \ {m})

\* `for k := range m { keys = append(keys, k) }`: the keys of m in the order
\* the map hands them out, which is any order
RangeKeys(m) ==
    LET n == Cardinality(DOMAIN m)
    IN  {s \in [1..n -> DOMAIN m] : \A k \in DOMAIN m : \E j \in 1..n : s[j] = k}

\* mutant of Sorted: the keys stay in the order of the iteration
Unsorted(keys) == keys

\* sort.Strings(keys), for a slice without duplicates
Sorted(keys) == SortStrings({keys[j] : j \in 1..Len(keys)})

\* strings.Join
RECURSIVE Join(_, _)
Join(elems, sep) ==
    IF Len(elems) = 0 THEN <<>>
    ELSE IF Len(elems) = 1 THEN elems[1]
    ELSE elems[1] \o sep \o Join(Tail(elems), sep)

\* strings.Repeat(" ", n)
Repeat(c, n) == [j \in 1..n |-> c]

Digit(d) == <<"0", "1", "2", "3", "4", "5", "6", "7", "8", "9">>[d + 1]

\* the decimal digits of n >= 0
RECURSIVE Digits(_)
Digits(n) == IF n < 10 THEN <<Digit(n)>> ELSE Digits(n \div 10) \o <<Digit(n % 10)>>

\* fmt's %d
Itoa(n) == IF n < 0 THEN <<"-">> \o Digits(-n) ELSE Digits(n)

\* n >= 0 in exactly w digits, zero-padded
Pad(n, w) == LET d == Digits(n) IN Repeat("0", w - Len(d)) \o d

RECURSIVE TrimZeros(_)
TrimZeros(s) ==
    IF s # <<>> /\ s[Len(s)] = "0" THEN TrimZeros(SubSeq(s, 1, Len(s) - 1)) ELSE s

(***************************************************************************)
(* Values of type `any`.                                                    *)
(***************************************************************************)
IntV(n)    == [kind |-> "int", n |-> n]
\* a float64 holding tenths/10 exactly enough for %g to print one decimal
FloatV(t)  == [kind |-> "float", tenths |-> t]
StrV(s)    == [kind |-> "string", s |-> s]
BoolV(b)   == [kind |-> "bool", b |-> b]
NilV       == [kind |-> "nil"]
\* a time.Time in UTC
TimeV(y, mo, d, h, mi, s, ns) ==
    [kind |-> "time", year |-> y, month |-> mo, day |-> d,
     hour |-> h, minute |-> mi, second |-> s, nsec |-> ns]
ArrV(items) == [kind |-> "array", items |-> items]
MapV(m)     == [kind |-> "map", m |-> m]

IsMap(v) == v.kind = "map"

(***************************************************************************)
(* formatTomlValue                                                          *)
(***************************************************************************)
\* strconv.Quote for the bytes of the model: %q
QuoteByte(c) ==
    CASE c = "\"" -> <<"\\", "\"">>
      [] c = "\\" -> <<"\\", "\\">>
      [] c = "\n" -> <<"\\", "n">>
      [] c = "\t" -> <<"\\", "t">>
      [] OTHER    -> <<c>>

RECURSIVE QuoteBody(_)
QuoteBody(s) == IF s = <<>> THEN <<>> ELSE QuoteByte(s[1]) \o QuoteBody(Tail(s))

\* mutant of Quote: strings are written as literal strings
QuoteSingle(s) == <<"'">> \o s \o <<"'">>

Quote(s) == <<"\"">> \o QuoteBody(s) \o <<"\"">>

\* %g of tenths/10, for magnitudes that print without an exponent
FormatG(t) ==
    LET a == IF t < 0 THEN -t ELSE t
        sign == IF t < 0 THEN <<"-">> ELSE <<>>
    IN  sign \o Digits(a \div 10) \o
        (IF a % 10 = 0 THEN <<>> ELSE <<".", Digit(a % 10)>>)

\* time.Time.Format(time.RFC3339Nano), UTC
FormatTime(v) ==
    Pad(v.year, 4) \o <<"-">> \o Pad(v.month, 2) \o <<"-">> \o Pad(v.day, 2) \o <<"T">>
    \o Pad(v.hour, 2) \o <<":">> \o Pad(v.minute, 2) \o <<":">> \o Pad(v.second, 2)
    \o (IF v.nsec = 0 THEN <<>> ELSE <<".">> \o TrimZeros(Pad(v.nsec, 9)))
    \o <<"Z">>

UnknownMap ==
    << "<", "<", "U", "N", "K", "N", "O", "W", "N", " ", "T", "Y", "P", "E", " ",
       "m", "a", "p", "[", "s", "t", "r", "i", "n", "g", "]",
       "i", "n", "t", "e", "r", "f", "a", "c", "e", " ", "{", "}", ">", ">" >>

RECURSIVE formatTomlValue(_)
formatTomlValue(v) ==
    CASE v.kind = "string" -> Quote(v.s)
      [] v.kind = "int"    -> Itoa(v.n)
      [] v.kind = "float"  -> FormatG(v.tenths)
      [] v.kind = "bool"   -> IF v.b THEN <<"t", "r", "u", "e">>
                                     ELSE <<"f", "a", "l", "s", "e">>
      [] v.kind = "time"   -> FormatTime(v)
      [] v.kind = "nil"    -> <<"'", "'">>
      [] v.kind = "array"  ->
            <<"[">> \o Join([j \in 1..Len(v.items) |-> formatTomlValue(v.items[j])],
                            <<",", " ">>) \o <<"]">>
      [] OTHER             -> UnknownMap

(***************************************************************************)
(* formatMap, first half: the categorisation loop.                          *)
(***************************************************************************)
\* mutant of ScanArray: the first item alone decides
ScanArrayFirstOnly(maybeArray, j, containsMaps) ==
    IF IsMap(maybeArray[1]) THEN "arrayTable" ELSE "simple"

\* the inner loop over the items of a non-empty array:
\* "arrayTable" when the loop ends with isArrTable true, "mixed" when it
\* returns the error, "simple" when it breaks with isArrTable false
RECURSIVE ScanArray(_, _, _)
ScanArray(maybeArray, j, containsMaps) ==
    IF j > Len(maybeArray) THEN "arrayTable"
    ELSE IF IsMap(maybeArray[j]) THEN ScanArray(maybeArray, j + 1, TRUE)
    ELSE IF containsMaps THEN "mixed"
    ELSE "simple"

MixedError(fullPath) ==
    <<"key '">> \o Join(fullPath, <<".">>)
    \o <<"': arrays cannot mix tables and non-tables">>

NoKeys == [maxKeyLen |-> 0, simpleKeys |-> <<>>, tableKeys |-> <<>>,
           arrayTableKeys |-> <<>>, err |-> Nil]

\* mutant of Categorize: maxKeyLen is taken over the keys of all categories
RECURSIVE CategorizeAllKeys(_, _, _, _, _)
CategorizeAllKeys(dataMap, currentPath, keys, j, acc) ==
    IF j > Len(keys) THEN acc
    ELSE
      LET k == keys[j]
          v == dataMap[k]
          scan == IF v.kind = "array" /\ Len(v.items) > 0
                  THEN ScanArray(v.items, 1, FALSE) ELSE "simple"
          longer == IF Len(k) > acc.maxKeyLen THEN Len(k) ELSE acc.maxKeyLen
      IN  IF scan = "mixed"
            THEN [acc EXCEPT !.err = MixedError(Append(currentPath, k))]
          ELSE IF scan = "arrayTable"
            THEN CategorizeAllKeys(dataMap, currentPath, keys, j + 1,
                   [acc EXCEPT !.arrayTableKeys = (k :> v.items) @@ @,
                               !.maxKeyLen = longer])
          ELSE IF IsMap(v)
            THEN CategorizeAllKeys(dataMap, currentPath, keys, j + 1,
                   [acc EXCEPT !.tableKeys = Append(@, k), !.maxKeyLen = longer])
          ELSE CategorizeAllKeys(dataMap, currentPath, keys, j + 1,
                   [acc EXCEPT !.simpleKeys = Append(@, k), !.maxKeyLen = longer])

\* mutant of Categorize: an empty array is taken for a table
RECURSIVE CategorizeEmptyAsTable(_, _, _, _, _)
CategorizeEmptyAsTable(dataMap, currentPath, keys, j, acc) ==
    IF j > Len(keys) THEN acc
    ELSE
      LET k == keys[j]
          v == dataMap[k]
          scan == IF v.kind = "array" /\ Len(v.items) > 0
                  THEN ScanArray(v.items, 1, FALSE) ELSE "simple"
      IN  IF scan = "mixed"
            THEN [acc EXCEPT !.err = MixedError(Append(currentPath, k))]
          ELSE IF scan = "arrayTable"
            THEN CategorizeEmptyAsTable(dataMap, currentPath, keys, j + 1,
                   [acc EXCEPT !.arrayTableKeys = (k :> v.items) @@ @])
          ELSE IF IsMap(v) \/ (v.kind = "array" /\ Len(v.items) = 0)
            THEN CategorizeEmptyAsTable(dataMap, currentPath, keys, j + 1,
                   [acc EXCEPT !.tableKeys = Append(@, k)])
          ELSE CategorizeEmptyAsTable(dataMap, currentPath, keys, j + 1,
                   [acc EXCEPT !.simpleKeys = Append(@, k),
                               !.maxKeyLen = IF Len(k) > @ THEN Len(k) ELSE @])

\* mutant of Categorize: a table key goes on to the simple keys as well
RECURSIVE CategorizeFallThrough(_, _, _, _, _)
CategorizeFallThrough(dataMap, currentPath, keys, j, acc) ==
    IF j > Len(keys) THEN acc
    ELSE
      LET k == keys[j]
          v == dataMap[k]
          scan == IF v.kind = "array" /\ Len(v.items) > 0
                  THEN ScanArray(v.items, 1, FALSE) ELSE "simple"
      IN  IF scan = "mixed"
            THEN [acc EXCEPT !.err = MixedError(Append(currentPath, k))]
          ELSE IF scan = "arrayTable"
            THEN CategorizeFallThrough(dataMap, currentPath, keys, j + 1,
                   [acc EXCEPT !.arrayTableKeys = (k :> v.items) @@ @])
          ELSE IF IsMap(v)
            THEN CategorizeFallThrough(dataMap, currentPath, keys, j + 1,
                   [acc EXCEPT !.tableKeys = Append(@, k),
                               !.simpleKeys = Append(@, k),
                               !.maxKeyLen = IF Len(k) > @ THEN Len(k) ELSE @])
          ELSE CategorizeFallThrough(dataMap, currentPath, keys, j + 1,
                   [acc EXCEPT !.simpleKeys = Append(@, k),
                               !.maxKeyLen = IF Len(k) > @ THEN Len(k) ELSE @])

\* the loop `for _, k := range keys` from its j-th iteration on
RECURSIVE Categorize(_, _, _, _, _)
Categorize(dataMap, currentPath, keys, j, acc) ==
    IF j > Len(keys) THEN acc
    ELSE
      LET k == keys[j]
          v == dataMap[k]
          scan == IF v.kind = "array" /\ Len(v.items) > 0
                  THEN ScanArray(v.items, 1, FALSE) ELSE "simple"
      IN  IF scan = "mixed"
            THEN [acc EXCEPT !.err = MixedError(Append(currentPath, k))]
          ELSE IF scan = "arrayTable"
            THEN Categorize(dataMap, currentPath, keys, j + 1,
                   [acc EXCEPT !.arrayTableKeys = (k :> v.items) @@ @])
          ELSE IF IsMap(v)
            THEN Categorize(dataMap, currentPath, keys, j + 1,
                   [acc EXCEPT !.tableKeys = Append(@, k)])
          ELSE Categorize(dataMap, currentPath, keys, j + 1,
                   [acc EXCEPT !.simpleKeys = Append(@, k),
                               !.maxKeyLen = IF Len(k) > @ THEN Len(k) ELSE @])

(***************************************************************************)
(* The section writers.                                                     *)
(***************************************************************************)
\* formatSimpleKeys from its j-th key on
RECURSIVE formatSimpleKeys(_, _, _, _, _, _)
formatSimpleKeys(dataMap, simpleKeys, maxKeyLen, currentIndent, output, j) ==
    IF j > Len(simpleKeys) THEN output
    ELSE
      LET k == simpleKeys[j]
          padding == Repeat(" ", maxKeyLen - Len(k))
          formattedValue == formatTomlValue(dataMap[k])
      IN  formatSimpleKeys(dataMap, simpleKeys, maxKeyLen, currentIndent,
            output \o currentIndent \o k \o padding \o <<" ", "=", " ">>
                   \o formattedValue \o <<"\n">>,
            j + 1)

IsCut(c) == c \in {"\n", "\t", " "}

\* bytes.TrimRight(b, "\n\t ")
RECURSIVE TrimRight(_)
TrimRight(b) ==
    IF b # <<>> /\ IsCut(b[Len(b)]) THEN TrimRight(SubSeq(b, 1, Len(b) - 1)) ELSE b

\* bytes.HasSuffix(b, "\n\n")
HasBlankSuffix(b) == Len(b) >= 2 /\ b[Len(b) - 1] = "\n" /\ b[Len(b)] = "\n"

\* mutant of ArraySeparator: a blank line only between the items of one array
ArraySeparatorBetweenItems(output, i) ==
    IF i > 0 THEN output \o <<"\n">> ELSE output

\* the separator block of formatArrayTables, before the header of element i
ArraySeparator(output, i) ==
    IF Len(output) > 0
    THEN LET trimmedLen == Len(TrimRight(output))
         IN  IF (trimmedLen > 0 /\ trimmedLen < Len(output)) \/ i > 0
             THEN IF ~HasBlankSuffix(output) THEN output \o <<"\n">> ELSE output
             ELSE output
    ELSE output

\* the separator block of formatRegularTables
TableSeparator(output) ==
    IF Len(output) > 0
    THEN LET trimmedLen == Len(TrimRight(output))
         IN  IF trimmedLen > 0 /\ trimmedLen < Len(output)
             THEN IF ~HasBlankSuffix(output) THEN output \o <<"\n">> ELSE output
             ELSE IF trimmedLen = Len(output) /\ Len(output) > 0
             THEN output \o <<"\n">>
             ELSE output
    ELSE output

ArrayHeader(currentIndent, fullPath) ==
    currentIndent \o <<"[", "[">> \o Join(fullPath, <<".">>) \o <<"]", "]", "\n">>

\* mutant of TableHeader: the header names the table's own key only
TableHeaderKeyOnly(currentIndent, fullPath) ==
    currentIndent \o <<"[">> \o fullPath[Len(fullPath)] \o <<"]", "\n">>

\* mutant of TableHeader: the header line is not terminated
TableHeaderUnterminated(currentIndent, fullPath) ==
    currentIndent \o <<"[">> \o Join(fullPath, <<".">>) \o <<"]">>

TableHeader(currentIndent, fullPath) ==
    currentIndent \o <<"[">> \o Join(fullPath, <<".">>) \o <<"]", "\n">>

ArrayItemError(fullPath) ==
    <<"internal error: item in array table '">> \o Join(fullPath, <<".">>)
    \o <<"' not a map">>

TableItemError(fullPath) ==
    <<"internal error: item for table key '">> \o Join(fullPath, <<".">>)
    \o <<"' is not a map[string]interface{} (got ", "%T", ")">>

WrapArrayError(fullPath, i, e) ==
    <<"formatting array table '">> \o Join(fullPath, <<".">>) \o <<"' index ">>
    \o Itoa(i) \o <<": ">> \o e

WrapTableError(fullPath, e) ==
    <<"formatting table '">> \o Join(fullPath, <<".">>) \o <<"': ">> \o e

(***************************************************************************)
(* The call stack.  A frame is one formatMap call; `at` is the place the    *)
(* call has reached: "categorize" (entry), "simple" (before                 *)
(* formatSimpleKeys), "arrays" (in the loops of formatArrayTables, at key   *)
(* sortedArrayTableKeys[kidx], element i), "tables" (in the loop of         *)
(* formatRegularTables, at tableKeys[kidx]).                                *)
(***************************************************************************)
\* mutant of Frame: the indent is not handed down to the call
FrameUnindented(dataMap, currentPath, currentIndent) ==
    [dataMap |-> dataMap, currentPath |-> currentPath,
     currentIndent |-> <<>>, at |-> "categorize",
     maxKeyLen |-> 0, simpleKeys |-> <<>>, tableKeys |-> <<>>,
     arrayTableKeys |-> <<>>, sortedArrayTableKeys |-> <<>>,
     kidx |-> 1, i |-> 0]

Frame(dataMap, currentPath, currentIndent) ==
    [dataMap |-> dataMap, currentPath |-> currentPath,
     currentIndent |-> currentIndent, at |-> "categorize",
     maxKeyLen |-> 0, simpleKeys |-> <<>>, tableKeys |-> <<>>,
     arrayTableKeys |-> <<>>, sortedArrayTableKeys |-> <<>>,
     kidx |-> 1, i |-> 0]

Top == stack[Len(stack)]
Pop(s) == SubSeq(s, 1, Len(s) - 1)
SetTop(s, f) == [s EXCEPT ![Len(s)] = f]

\* mutant of Advance: the key of a finished section is deleted from the table
AdvanceDeleting(f) ==
    LET k == IF f.at = "arrays" THEN f.sortedArrayTableKeys[f.kidx] ELSE f.tableKeys[f.kidx]
        rest == [o \in DOMAIN f.dataMap \ {k} |-> f.dataMap[o]]
    IN  IF f.at = "arrays"
        THEN IF f.i + 1 < Len(f.arrayTableKeys[f.sortedArrayTableKeys[f.kidx]])
             THEN [f EXCEPT !.i = @ + 1]
             ELSE [f EXCEPT !.i = 0, !.kidx = @ + 1, !.dataMap = rest]
        ELSE [f EXCEPT !.kidx = @ + 1, !.dataMap = rest]

\* the loop step taken by the caller when the formatMap call it made returns nil
Advance(f) ==
    IF f.at = "arrays"
    THEN IF f.i + 1 < Len(f.arrayTableKeys[f.sortedArrayTableKeys[f.kidx]])
         THEN [f EXCEPT !.i = @ + 1]
         ELSE [f EXCEPT !.i = 0, !.kidx = @ + 1]
    ELSE [f EXCEPT !.kidx = @ + 1]

\* pc = "start": Format is entered
Format ==
    /\ pc = "start"
    /\ pc' = "run"
    /\ internalBuf' = <<>>
    /\ stack' = <<Frame(data, <<>>, <<>>)>>
    /\ UNCHANGED <<caller, err, result, written, writes>>

\* formatMap from its entry to the end of the categorisation loop
CategorizeKeys ==
    /\ pc = "run" /\ err = Nil /\ stack # <<>> /\ Top.at = "categorize"
    /\ \E order \in RangeKeys(Top.dataMap) :
         LET keys == Sorted(order)
             c == Categorize(Top.dataMap, Top.currentPath, keys, 1, NoKeys)
         IN  IF c.err # Nil
             THEN /\ err' = c.err
                  /\ stack' = Pop(stack)
             ELSE /\ err' = err
                  /\ stack' = SetTop(stack,
                       [Top EXCEPT !.at = "simple",
                                   !.maxKeyLen = c.maxKeyLen,
                                   !.simpleKeys = c.simpleKeys,
                                   !.tableKeys = c.tableKeys,
                                   !.arrayTableKeys = c.arrayTableKeys])
    /\ UNCHANGED <<caller, pc, internalBuf, result, written, writes>>

\* the call of formatSimpleKeys, and formatArrayTables up to its loops
SimpleKeys ==
    /\ pc = "run" /\ err = Nil /\ stack # <<>> /\ Top.at = "simple"
    /\ internalBuf' = formatSimpleKeys(Top.dataMap, Top.simpleKeys, Top.maxKeyLen,
                                       Top.currentIndent, internalBuf, 1)
    /\ \E order \in RangeKeys(Top.arrayTableKeys) :
         stack' = SetTop(stack,
           [Top EXCEPT !.at = "arrays", !.sortedArrayTableKeys = Sorted(order)])
    /\ UNCHANGED <<caller, pc, err, result, written, writes>>

\* mutant of ArrayTableItem: the items of an array are taken last to first
ArrayTableItemReversed ==
    /\ pc = "run" /\ err = Nil /\ stack # <<>> /\ Top.at = "arrays"
    /\ Top.kidx <= Len(Top.sortedArrayTableKeys)
    /\ LET k == Top.sortedArrayTableKeys[Top.kidx]
           fullPath == Append(Top.currentPath, k)
           arrData == Top.arrayTableKeys[k]
           item == arrData[Len(arrData) - Top.i]
       IN  /\ err' = err
           /\ internalBuf' = ArraySeparator(internalBuf, Top.i)
                             \o ArrayHeader(Top.currentIndent, fullPath)
           /\ stack' = Append(stack,
                Frame(item.m, fullPath, Top.currentIndent \o indentUnit))
    /\ UNCHANGED <<caller, pc, result, written, writes>>

\* one iteration of the inner loop of formatArrayTables, up to its formatMap call
ArrayTableItem ==
    /\ pc = "run" /\ err = Nil /\ stack # <<>> /\ Top.at = "arrays"
    /\ Top.kidx <= Len(Top.sortedArrayTableKeys)
    /\ LET k == Top.sortedArrayTableKeys[Top.kidx]
           fullPath == Append(Top.currentPath, k)
           item == Top.arrayTableKeys[k][Top.i + 1]
       IN  IF ~IsMap(item)
           THEN /\ err' = ArrayItemError(fullPath)
                /\ stack' = Pop(stack)
                /\ internalBuf' = internalBuf
           ELSE /\ err' = err
                /\ internalBuf' = ArraySeparator(internalBuf, Top.i)
                                  \o ArrayHeader(Top.currentIndent, fullPath)
                /\ stack' = Append(stack,
                     Frame(item.m, fullPath, Top.currentIndent \o indentUnit))
    /\ UNCHANGED <<caller, pc, result, written, writes>>

\* formatArrayTables returns nil; formatRegularTables is entered
ArrayTablesDone ==
    /\ pc = "run" /\ err = Nil /\ stack # <<>> /\ Top.at = "arrays"
    /\ Top.kidx > Len(Top.sortedArrayTableKeys)
    /\ stack' = SetTop(stack, [Top EXCEPT !.at = "tables", !.kidx = 1, !.i = 0])
    /\ UNCHANGED <<caller, pc, internalBuf, err, result, written, writes>>

\* mutant of RegularTable: a table without keys gets no header
RegularTableSkipEmpty ==
    /\ pc = "run" /\ err = Nil /\ stack # <<>> /\ Top.at = "tables"
    /\ Top.kidx <= Len(Top.tableKeys)
    /\ LET k == Top.tableKeys[Top.kidx]
           fullPath == Append(Top.currentPath, k)
           subMapInterface == Top.dataMap[k]
       IN  IF ~IsMap(subMapInterface)
           THEN /\ err' = TableItemError(fullPath)
                /\ stack' = Pop(stack)
                /\ internalBuf' = internalBuf
           ELSE /\ err' = err
                /\ internalBuf' = IF DOMAIN subMapInterface.m = {} THEN internalBuf
                                  ELSE TableSeparator(internalBuf)
                                       \o TableHeader(Top.currentIndent, fullPath)
                /\ stack' = Append(stack,
                     Frame(subMapInterface.m, fullPath, Top.currentIndent \o indentUnit))
    /\ UNCHANGED <<caller, pc, result, written, writes>>

\* one iteration of the loop of formatRegularTables, up to its formatMap call
RegularTable ==
    /\ pc = "run" /\ err = Nil /\ stack # <<>> /\ Top.at = "tables"
    /\ Top.kidx <= Len(Top.tableKeys)
    /\ LET k == Top.tableKeys[Top.kidx]
           fullPath == Append(Top.currentPath, k)
           subMapInterface == Top.dataMap[k]
       IN  IF ~IsMap(subMapInterface)
           THEN /\ err' = TableItemError(fullPath)
                /\ stack' = Pop(stack)
                /\ internalBuf' = internalBuf
           ELSE /\ err' = err
                /\ internalBuf' = TableSeparator(internalBuf)
                                  \o TableHeader(Top.currentIndent, fullPath)
                /\ stack' = Append(stack,
                     Frame(subMapInterface.m, fullPath, Top.currentIndent \o indentUnit))
    /\ UNCHANGED <<caller, pc, result, written, writes>>

\* formatRegularTables and formatMap return nil; the caller's loop steps on
Return ==
    /\ pc = "run" /\ err = Nil /\ stack # <<>> /\ Top.at = "tables"
    /\ Top.kidx > Len(Top.tableKeys)
    /\ stack' = IF Len(stack) = 1 THEN <<>>
                ELSE SetTop(Pop(stack), Advance(stack[Len(stack) - 1]))
    /\ UNCHANGED <<caller, pc, internalBuf, err, result, written, writes>>

\* mutant of Propagate: the error is handed up without the section's context
PropagateBare ==
    /\ pc = "run" /\ err # Nil /\ stack # <<>>
    /\ err' = err
    /\ stack' = Pop(stack)
    /\ UNCHANGED <<caller, pc, internalBuf, result, written, writes>>

\* a formatMap call returned an error to a section writer, which wraps it and
\* returns it through its own formatMap call
Propagate ==
    /\ pc = "run" /\ err # Nil /\ stack # <<>>
    /\ LET fullPath ==
              IF Top.at = "arrays"
              THEN Append(Top.currentPath, Top.sortedArrayTableKeys[Top.kidx])
              ELSE Append(Top.currentPath, Top.tableKeys[Top.kidx])
       IN  err' = IF Top.at = "arrays" THEN WrapArrayError(fullPath, Top.i, err)
                  ELSE WrapTableError(fullPath, err)
    /\ stack' = Pop(stack)
    /\ UNCHANGED <<caller, pc, internalBuf, result, written, writes>>

\* mutant of FormatFail: the buffer is flushed to the writer before the error
\* is returned
FormatFailFlush ==
    /\ pc = "run" /\ err # Nil /\ stack = <<>>
    /\ result' = err
    /\ pc' = "done"
    /\ written' = written \o internalBuf
    /\ writes' = writes + 1
    /\ UNCHANGED <<caller, stack, internalBuf, err>>

\* Format: formatMap returned an error
FormatFail ==
    /\ pc = "run" /\ err # Nil /\ stack = <<>>
    /\ result' = err
    /\ pc' = "done"
    /\ UNCHANGED <<caller, stack, internalBuf, err, written, writes>>

SinkError == <<"write failed">>

\* mutant of WriteTo: Write is called on the writer even for an empty buffer
WriteToAlways ==
    /\ pc = "run" /\ err = Nil /\ stack = <<>>
    /\ pc' = "done"
    /\ writes' = writes + 1
    /\ \E ok \in BOOLEAN :
         IF ok THEN /\ written' = written \o internalBuf
                    /\ internalBuf' = <<>>
                    /\ result' = Nil
               ELSE /\ result' = <<"write failed">>
                    /\ UNCHANGED <<internalBuf, written>>
    /\ UNCHANGED <<caller, stack, err>>

\* mutant of WriteTo: the writer's error is returned with added context
WriteToWrapped ==
    /\ pc = "run" /\ err = Nil /\ stack = <<>>
    /\ pc' = "done"
    /\ IF internalBuf = <<>>
       THEN /\ result' = Nil
            /\ UNCHANGED <<internalBuf, written, writes>>
       ELSE /\ writes' = writes + 1
            /\ \E ok \in BOOLEAN :
                 IF ok THEN /\ written' = written \o internalBuf
                            /\ internalBuf' = <<>>
                            /\ result' = Nil
                       ELSE /\ result' = <<"writing output: ">> \o SinkError
                            /\ UNCHANGED <<internalBuf, written>>
    /\ UNCHANGED <<caller, stack, err>>

\* Format: internalBuf.WriteTo(output).  bytes.Buffer.WriteTo calls Write once
\* when the buffer is not empty; the writer accepts all of it or fails.
WriteTo ==
    /\ pc = "run" /\ err = Nil /\ stack = <<>>
    /\ pc' = "done"
    /\ IF internalBuf = <<>>
       THEN /\ result' = Nil
            /\ UNCHANGED <<internalBuf, written, writes>>
       ELSE /\ writes' = writes + 1
            /\ \E ok \in BOOLEAN :
                 IF ok THEN /\ written' = written \o internalBuf
                            /\ internalBuf' = <<>>
                            /\ result' = Nil
                       ELSE /\ result' = SinkError
                            /\ UNCHANGED <<internalBuf, written>>
    /\ UNCHANGED <<caller, stack, err>>

(***************************************************************************)
(* The documents and indent units the model is run on.                      *)
(***************************************************************************)
MaxArrLen == 2   \* arrays have at most this many items
MaxDepth  == 3   \* the deepest chain of nested sections

RootKeys  == {<<"a", "a">>, <<"b">>, <<"C">>}
InnerKeys == {<<"x">>, <<"y", "y">>}
IndentUnits == {<<>>, <<" ", " ">>}

X1 == (<<"x">> :> IntV(1))

TablesOver(K, V) == UNION {[S -> V] : S \in SUBSET K}
SeqsUpTo(S, n) == UNION {[1..m -> S] : m \in 1..n}

Mixed == ArrV(<<MapV(X1), IntV(1)>>)
InnerTables == {MapV(t) : t \in TablesOver(InnerKeys, {IntV(1), MapV(<<>>), Mixed})}
Arrays ==
    {ArrV(s) : s \in SeqsUpTo({IntV(1), MapV(<<>>), MapV(X1)}, MaxArrLen)}
    \cup {ArrV(<<>>), ArrV(<<ArrV(<<MapV(X1)>>)>>)}
RootValues == {IntV(1)} \cup Arrays \cup InnerTables

\* at most two of the root keys, any values
WideDocs == UNION {[S -> RootValues] : S \in {T \in SUBSET RootKeys : Cardinality(T) <= 2}}
\* all three root keys, one value of each category
FullDocs == [RootKeys -> {IntV(1), MapV(X1), ArrV(<<MapV(X1)>>)}]

\* chains of d nested sections, each a table or a one-element array of tables
RECURSIVE DeepTables(_)
DeepTables(d) ==
    IF d = 0 THEN {<<>>, X1, (<<"x">> :> Mixed), (<<"x">> :> ArrV(<<>>))}
    ELSE LET child == DeepTables(d - 1)
             under == {MapV(c) : c \in child} \cup {ArrV(<<MapV(c)>>) : c \in child}
         IN  {(<<"t">> :> u) : u \in under}
             \cup {(<<"t">> :> u) @@ X1 : u \in under}

Docs == WideDocs \cup FullDocs \cup DeepTables(MaxDepth)

Init ==
    /\ data \in Docs
    /\ indentUnit \in IndentUnits
    /\ pc = "start"
    /\ stack = <<>>
    /\ internalBuf = <<>>
    /\ err = Nil
    /\ result = Nil
    /\ written = <<>>
    /\ writes = 0
    /\ runs = 1
    /\ prevData = <<>>
    /\ prevOut = <<>>
    /\ proc = NoProc
    /\ env = NoEnv

Next ==
    \/ Format
    \/ CategorizeKeys
    \/ SimpleKeys
    \/ ArrayTableItem
    \/ ArrayTablesDone
    \/ RegularTable
    \/ Return
    \/ Propagate
    \/ FormatFail
    \/ WriteTo

Spec == Init /\ [][Next]_vars

(***************************************************************************)
(* Reading a rendered text back as lines, for the properties below.         *)
(***************************************************************************)
Min(S) == CHOOSE m \in S : \A o \in S : m <= o

\* the lines of b, without their newlines
RECURSIVE SplitLines(_)
SplitLines(b) ==
    IF b = <<>> THEN <<>>
    ELSE LET nl == {j \in 1..Len(b) : b[j] = "\n"}
             n == IF nl = {} THEN Len(b) + 1 ELSE Min(nl)
         IN  <<SubSeq(b, 1, n - 1)>> \o SplitLines(SubSeq(b, n + 1, Len(b)))

\* s cut at every occurrence of the byte c
RECURSIVE SplitOn(_, _)
SplitOn(s, c) ==
    LET at == {j \in 1..Len(s) : s[j] = c}
    IN  IF at = {} THEN <<s>>
        ELSE <<SubSeq(s, 1, Min(at) - 1)>> \o SplitOn(SubSeq(s, Min(at) + 1, Len(s)), c)

\* a line as a record: its leading whitespace, its kind, and its parts.
\* eq is the 0-based column of the first '=' of a key/value line.
LineRec(line) ==
    LET solid == {j \in 1..Len(line) : line[j] \notin {" ", "\t"}}
        ind == IF solid = {} THEN Len(line) ELSE Min(solid) - 1
        body == SubSeq(line, ind + 1, Len(line))
        n == Len(body)
        sp == {j \in 1..n : body[j] = " "}
        eqs == {j \in 1..Len(line) : line[j] = "="}
        base == [len |-> Len(line), indent |-> SubSeq(line, 1, ind),
                 kind |-> "blank", text |-> <<>>, eq |-> 0, value |-> <<>>]
    IN  IF n = 0 THEN base
        ELSE IF n >= 4 /\ body[1] = "[" /\ body[2] = "[" /\ body[n - 1] = "]" /\ body[n] = "]"
          THEN [base EXCEPT !.kind = "arrayHeader", !.text = SubSeq(body, 3, n - 2)]
        ELSE IF n >= 2 /\ body[1] = "[" /\ body[n] = "]"
          THEN [base EXCEPT !.kind = "tableHeader", !.text = SubSeq(body, 2, n - 1)]
        ELSE IF eqs # {} /\ sp # {}
          THEN [base EXCEPT !.kind = "pair",
                            !.text = SubSeq(body, 1, Min(sp) - 1),
                            !.eq = Min(eqs) - 1,
                            !.value = SubSeq(line, Min(eqs) + 2, Len(line))]
        ELSE [base EXCEPT !.kind = "other"]

Recs(b) == LET lines == SplitLines(b) IN [j \in 1..Len(lines) |-> LineRec(lines[j])]

IsHeader(r) == r.kind \in {"arrayHeader", "tableHeader"}
Headers(recs) == {j \in 1..Len(recs) : IsHeader(recs[j])}
\* the table levels of a text: 0 is the root, j the section whose header is line j
Levels(recs) == {0} \cup Headers(recs)
PathOf(recs, h) == IF h = 0 THEN <<>> ELSE SplitOn(recs[h].text, ".")
KeyOf(recs, h) == LET p == PathOf(recs, h) IN p[Len(p)]
Extends(p, q) == Len(p) < Len(q) /\ SubSeq(q, 1, Len(p)) = p

\* the line after the last line of level h and of the levels nested in it
ExtentEnd(recs, h) ==
    LET out == {j \in Headers(recs) :
                  j > h /\ ~Extends(PathOf(recs, h), PathOf(recs, j))}
    IN  IF out = {} THEN Len(recs) + 1 ELSE Min(out)

\* the key/value lines of level h itself
Own(recs, h) ==
    {j \in 1..Len(recs) :
        /\ j > h /\ recs[j].kind = "pair"
        /\ \A m \in (h + 1)..j : ~IsHeader(recs[m])}

\* the sections directly under level h
Children(recs, h) ==
    {j \in Headers(recs) :
        /\ j > h /\ j < ExtentEnd(recs, h)
        /\ Len(PathOf(recs, j)) = Len(PathOf(recs, h)) + 1}

HasParent(recs, j) == \E h \in Levels(recs) : j \in Children(recs, h)
Parent(recs, j) == CHOOSE h \in Levels(recs) : j \in Children(recs, h)
WellNested(recs) == \A j \in Headers(recs) : HasParent(recs, j)

NoTable == [ok |-> FALSE, m |-> <<>>]

\* the table of `root` that level h of the text stands for: the value under the
\* header's key in the parent level's table, and for the n-th [[header]] of
\* that key under the same parent, the n-th item of the array
RECURSIVE TableAt(_, _, _)
TableAt(root, recs, h) ==
    IF h = 0 THEN [ok |-> TRUE, m |-> root]
    ELSE IF ~HasParent(recs, h) THEN NoTable
    ELSE
      LET p == Parent(recs, h)
          up == TableAt(root, recs, p)
          k == KeyOf(recs, h)
          nth == Cardinality({c \in Children(recs, p) :
                    c <= h /\ recs[c].kind = "arrayHeader" /\ KeyOf(recs, c) = k})
      IN  IF ~up.ok \/ k \notin DOMAIN up.m THEN NoTable
          ELSE LET v == up.m[k]
               IN  IF recs[h].kind = "tableHeader" /\ v.kind = "map"
                     THEN [ok |-> TRUE, m |-> v.m]
                   ELSE IF recs[h].kind = "arrayHeader" /\ v.kind = "array"
                           /\ nth <= Len(v.items) /\ v.items[nth].kind = "map"
                     THEN [ok |-> TRUE, m |-> v.items[nth].m]
                   ELSE NoTable

\* the three categories of the data model
IsArrayOfTables(v) ==
    v.kind = "array" /\ Len(v.items) > 0 /\ \A j \in 1..Len(v.items) : IsMap(v.items[j])
IsSimple(v) == ~IsMap(v) /\ ~IsArrayOfTables(v)
IsMixed(v) ==
    /\ v.kind = "array"
    /\ \E j \in 1..Len(v.items) : IsMap(v.items[j])
    /\ \E j \in 1..Len(v.items) : ~IsMap(v.items[j])

Succeeded == pc = "done" /\ result = Nil

(***************************************************************************)
(* A second run on the first run's text: runFormattingLogic reads the text, *)
(* parses it with toml.Unmarshal (go-toml v2, TOML 1.0) and formats the     *)
(* result.  The parser is modelled on the grammar the formatter writes:     *)
(* blank lines, [table] and [[array]] headers with dotted bare keys, and    *)
(* `key = value` lines whose values are basic or literal strings, booleans, *)
(* integers, floats, UTC date-times and arrays of these.                    *)
(***************************************************************************)
IsSpace(c) == c \in {" ", "\t"}
IsDigit(c) == c \in {"0", "1", "2", "3", "4", "5", "6", "7", "8", "9"}
IsBare(c) ==
    \/ IsDigit(c) \/ c \in {"_", "-"}
    \/ (Ord("A") <= Ord(c) /\ Ord(c) <= Ord("Z"))
    \/ (Ord("a") <= Ord(c) /\ Ord(c) <= Ord("z"))

Trim(s) ==
    LET solid == {j \in 1..Len(s) : ~IsSpace(s[j])}
    IN  IF solid = {} THEN <<>>
        ELSE SubSeq(s, Min(solid), CHOOSE m \in solid : \A o \in solid : o <= m)

\* the position of the first byte at or after p that is not a space; Len(s)+1 if none
SkipSpace(s, p) ==
    LET solid == {j \in p..Len(s) : ~IsSpace(s[j])}
    IN  IF solid = {} THEN Len(s) + 1 ELSE Min(solid)

StartsWith(s, p, w) == p + Len(w) - 1 <= Len(s) /\ SubSeq(s, p, p + Len(w) - 1) = w

\* a dotted key: bare keys separated by dots, spaces around them ignored
ParseKey(text) ==
    LET parts == SplitOn(Trim(text), ".")
        segs == [j \in 1..Len(parts) |-> Trim(parts[j])]
    IN  IF \A j \in 1..Len(segs) :
             segs[j] # <<>> /\ \A n \in 1..Len(segs[j]) : IsBare(segs[j][n])
        THEN [ok |-> TRUE, path |-> segs]
        ELSE [ok |-> FALSE, path |-> <<>>]

BadValue == [ok |-> FALSE, v |-> NilV, next |-> 0]
GoodValue(v, next) == [ok |-> TRUE, v |-> v, next |-> next]

\* a basic string from the byte after its opening quote
RECURSIVE ScanBasic(_, _, _)
ScanBasic(s, p, acc) ==
    IF p > Len(s) THEN BadValue
    ELSE IF s[p] = "\"" THEN GoodValue(StrV(acc), p + 1)
    ELSE IF s[p] = "\\"
      THEN IF p + 1 > Len(s) THEN BadValue
           ELSE IF s[p + 1] = "\"" THEN ScanBasic(s, p + 2, Append(acc, "\""))
           ELSE IF s[p + 1] = "\\" THEN ScanBasic(s, p + 2, Append(acc, "\\"))
           ELSE IF s[p + 1] = "n" THEN ScanBasic(s, p + 2, Append(acc, "\n"))
           ELSE IF s[p + 1] = "t" THEN ScanBasic(s, p + 2, Append(acc, "\t"))
           ELSE BadValue
    ELSE ScanBasic(s, p + 1, Append(acc, s[p]))

\* a literal string from the byte after its opening quote
ScanLiteral(s, p) ==
    LET q == {j \in p..Len(s) : s[j] = "'"}
    IN  IF q = {} THEN BadValue
        ELSE GoodValue(StrV(SubSeq(s, p, Min(q) - 1)), Min(q) + 1)

DigitValue(c) == Ord(c) - Ord("0")
AllDigits(s) == s # <<>> /\ \A j \in 1..Len(s) : IsDigit(s[j])

RECURSIVE ToNumber(_)
ToNumber(s) ==
    IF s = <<>> THEN 0 ELSE 10 * ToNumber(SubSeq(s, 1, Len(s) - 1)) + DigitValue(s[Len(s)])

\* no leading zero
IsDecimal(s) == AllDigits(s) /\ (Len(s) = 1 \/ s[1] # "0")

\* YYYY-MM-DDTHH:MM:SS[.fraction]Z
IsDateTime(tok) ==
    /\ Len(tok) >= 20 /\ tok[Len(tok)] = "Z"
    /\ tok[5] = "-" /\ tok[8] = "-" /\ tok[11] = "T" /\ tok[14] = ":" /\ tok[17] = ":"
    /\ \A j \in (1..19) \ {5, 8, 11, 14, 17} : IsDigit(tok[j])
    /\ Len(tok) > 20 =>
         /\ tok[20] = "." /\ Len(tok) >= 22 /\ Len(tok) <= 30
         /\ AllDigits(SubSeq(tok, 21, Len(tok) - 1))

DateTimeOf(tok) ==
    LET frac == IF Len(tok) > 20 THEN SubSeq(tok, 21, Len(tok) - 1) ELSE <<>>
    IN  TimeV(ToNumber(SubSeq(tok, 1, 4)), ToNumber(SubSeq(tok, 6, 7)),
              ToNumber(SubSeq(tok, 9, 10)), ToNumber(SubSeq(tok, 12, 13)),
              ToNumber(SubSeq(tok, 15, 16)), ToNumber(SubSeq(tok, 18, 19)),
              ToNumber(frac \o Repeat("0", 9 - Len(frac))))

\* an integer, a float with one fractional digit, or a date-time
NumberOf(tok) ==
    LET neg == tok # <<>> /\ tok[1] = "-"
        abs == IF tok # <<>> /\ tok[1] \in {"-", "+"} THEN Tail(tok) ELSE tok
        dots == {j \in 1..Len(abs) : abs[j] = "."}
        sign == IF neg THEN -1 ELSE 1
    IN  IF IsDateTime(tok) THEN [ok |-> TRUE, v |-> DateTimeOf(tok)]
        ELSE IF IsDecimal(abs) THEN [ok |-> TRUE, v |-> IntV(sign * ToNumber(abs))]
        ELSE IF /\ Cardinality(dots) = 1 /\ Min(dots) = Len(abs) - 1
                /\ IsDecimal(SubSeq(abs, 1, Len(abs) - 2)) /\ IsDigit(abs[Len(abs)])
          THEN [ok |-> TRUE,
                v |-> FloatV(sign * (10 * ToNumber(SubSeq(abs, 1, Len(abs) - 2))
                                     + DigitValue(abs[Len(abs)])))]
        ELSE [ok |-> FALSE, v |-> NilV]

IsNumberByte(c) == IsDigit(c) \/ c \in {"+", "-", ".", ":", "T", "Z"}

RECURSIVE Parse(_, _, _, _)

\* the pairs of an inline table from byte p on, up to its closing brace, after
\* the pairs in acc; bare keys, no comma before the brace
RECURSIVE ParseInline(_, _, _)
ParseInline(s, p, acc) ==
    IF p > Len(s) THEN BadValue
    ELSE IF s[p] = "}" /\ DOMAIN acc = {} THEN GoodValue(MapV(acc), p + 1)
    ELSE LET eqs == {j \in p..Len(s) : s[j] = "="}
             eq == IF eqs = {} THEN 0 ELSE Min(eqs)
             key == IF eq = 0 THEN [ok |-> FALSE, path |-> <<>>]
                    ELSE ParseKey(SubSeq(s, p, eq - 1))
             val == IF eq = 0 THEN BadValue ELSE Parse(s, SkipSpace(s, eq + 1), FALSE, <<>>)
             q == IF val.ok THEN SkipSpace(s, val.next) ELSE 0
         IN  IF ~key.ok \/ Len(key.path) # 1 \/ ~val.ok \/ q > Len(s) THEN BadValue
             ELSE IF key.path[1] \in DOMAIN acc THEN BadValue
             ELSE IF s[q] = ","
               THEN ParseInline(s, SkipSpace(s, q + 1), (key.path[1] :> val.v) @@ acc)
             ELSE IF s[q] = "}"
               THEN GoodValue(MapV((key.path[1] :> val.v) @@ acc), q + 1)
             ELSE BadValue

\* with inArray false: the value that starts at byte p of s; with inArray
\* true: the items of an array from byte p on, up to its closing bracket,
\* after the items in acc
Parse(s, p, inArray, acc) ==
    IF p > Len(s) THEN BadValue
    ELSE IF inArray
      THEN IF s[p] = "]" THEN GoodValue(ArrV(acc), p + 1)
           ELSE LET item == Parse(s, p, FALSE, <<>>)
                    q == IF item.ok THEN SkipSpace(s, item.next) ELSE 0
                IN  IF ~item.ok \/ q > Len(s) THEN BadValue
                    ELSE IF s[q] = ","
                      THEN Parse(s, SkipSpace(s, q + 1), TRUE, Append(acc, item.v))
                    ELSE IF s[q] = "]" THEN GoodValue(ArrV(Append(acc, item.v)), q + 1)
                    ELSE BadValue
    ELSE IF s[p] = "\"" THEN ScanBasic(s, p + 1, <<>>)
    ELSE IF s[p] = "'" THEN ScanLiteral(s, p + 1)
    ELSE IF StartsWith(s, p, <<"t", "r", "u", "e">>) THEN GoodValue(BoolV(TRUE), p + 4)
    ELSE IF StartsWith(s, p, <<"f", "a", "l", "s", "e">>) THEN GoodValue(BoolV(FALSE), p + 5)
    ELSE IF s[p] = "[" THEN Parse(s, SkipSpace(s, p + 1), TRUE, <<>>)
    ELSE IF s[p] = "{" THEN ParseInline(s, SkipSpace(s, p + 1), <<>>)
    ELSE IF IsNumberByte(s[p])
      THEN LET stop == {j \in p..Len(s) : ~IsNumberByte(s[j])}
               end == IF stop = {} THEN Len(s) + 1 ELSE Min(stop)
               num == NumberOf(SubSeq(s, p, end - 1))
           IN  IF num.ok THEN GoodValue(num.v, end) ELSE BadValue
    ELSE BadValue

ParseValue(s, p) == Parse(s, p, FALSE, <<>>)

\* one line as an expression of the grammar
ParseLine(line) ==
    LET t == Trim(line)
        n == Len(t)
        eqs == {j \in 1..n : t[j] = "="}
        bad == [kind |-> "error", path |-> <<>>, v |-> NilV]
    IN  IF n = 0 THEN [bad EXCEPT !.kind = "blank"]
        ELSE IF StartsWith(t, 1, <<"[", "[">>)
          THEN LET key == ParseKey(SubSeq(t, 3, n - 2))
               IN  IF n >= 5 /\ t[n - 1] = "]" /\ t[n] = "]" /\ key.ok
                   THEN [bad EXCEPT !.kind = "array", !.path = key.path] ELSE bad
        ELSE IF t[1] = "["
          THEN LET key == ParseKey(SubSeq(t, 2, n - 1))
               IN  IF n >= 3 /\ t[n] = "]" /\ key.ok
                   THEN [bad EXCEPT !.kind = "table", !.path = key.path] ELSE bad
        ELSE IF eqs = {} THEN bad
        ELSE LET key == ParseKey(SubSeq(t, 1, Min(eqs) - 1))
                 val == ParseValue(t, SkipSpace(t, Min(eqs) + 1))
             IN  IF key.ok /\ val.ok /\ val.next = n + 1
                 THEN [bad EXCEPT !.kind = "pair", !.path = key.path, !.v = val.v]
                 ELSE bad

\* the table reached from table t along path, through tables and the last
\* items of arrays of tables
RECURSIVE Lookup(_, _)
Lookup(t, path) ==
    IF path = <<>> THEN [ok |-> TRUE, m |-> t]
    ELSE IF path[1] \notin DOMAIN t THEN NoTable
    ELSE LET v == t[path[1]]
         IN  IF IsMap(v) THEN Lookup(v.m, Tail(path))
             ELSE IF IsArrayOfTables(v) THEN Lookup(v.items[Len(v.items)].m, Tail(path))
             ELSE NoTable

\* t with the table at path replaced by n
RECURSIVE Replace(_, _, _)
Replace(t, path, n) ==
    IF path = <<>> THEN n
    ELSE LET k == path[1]
             v == t[k]
         IN  IF IsMap(v) THEN [t EXCEPT ![k] = MapV(Replace(v.m, Tail(path), n))]
             ELSE [t EXCEPT ![k] = ArrV([v.items EXCEPT ![Len(v.items)] =
                                           MapV(Replace(@.m, Tail(path), n))])]

\* t with empty tables created for the missing keys of path
RECURSIVE MakePath(_, _)
MakePath(t, path) ==
    IF path = <<>> THEN [ok |-> TRUE, m |-> t]
    ELSE LET k == path[1]
         IN  IF k \notin DOMAIN t
             THEN [ok |-> TRUE, m |-> (k :> MapV(MakePath(<<>>, Tail(path)).m)) @@ t]
             ELSE LET v == t[k]
                      sub == IF IsMap(v) THEN MakePath(v.m, Tail(path))
                             ELSE IF IsArrayOfTables(v)
                               THEN MakePath(v.items[Len(v.items)].m, Tail(path))
                             ELSE NoTable
                  IN  IF ~sub.ok THEN NoTable
                      ELSE IF IsMap(v) THEN [ok |-> TRUE, m |-> [t EXCEPT ![k] = MapV(sub.m)]]
                      ELSE [ok |-> TRUE,
                            m |-> [t EXCEPT ![k] = ArrV([v.items EXCEPT ![Len(v.items)] =
                                                           MapV(sub.m)])]]

Prefix(p, q) == Len(p) <= Len(q) /\ SubSeq(q, 1, Len(p)) = p

\* the decoder's state: the document so far, the path of the current table,
\* the tables defined by a header and those defined by dotted keys
Failed(st) == [st EXCEPT !.ok = FALSE]

\* a [path] header
DefineTable(st, path) ==
    LET up == SubSeq(path, 1, Len(path) - 1)
        k == path[Len(path)]
        made == MakePath(st.root, up)
        pt == Lookup(made.m, up).m
    IN  IF ~made.ok THEN Failed(st)
        ELSE IF k \notin DOMAIN pt
          THEN [st EXCEPT !.root = Replace(made.m, up, (k :> MapV(<<>>)) @@ pt),
                          !.cur = path, !.defined = @ \cup {path}]
        ELSE IF IsMap(pt[k]) /\ path \notin st.defined /\ path \notin st.dotted
          THEN [st EXCEPT !.root = made.m, !.cur = path, !.defined = @ \cup {path}]
        ELSE Failed(st)

\* a [[path]] header
AppendTable(st, path) ==
    LET up == SubSeq(path, 1, Len(path) - 1)
        k == path[Len(path)]
        made == MakePath(st.root, up)
        pt == Lookup(made.m, up).m
        fresh(S) == {d \in S : ~Prefix(path, d)}
    IN  IF ~made.ok THEN Failed(st)
        ELSE IF k \notin DOMAIN pt
          THEN [st EXCEPT !.root = Replace(made.m, up, (k :> ArrV(<<MapV(<<>>)>>)) @@ pt),
                          !.cur = path, !.defined = fresh(@), !.dotted = fresh(@)]
        ELSE IF IsArrayOfTables(pt[k])
          THEN [st EXCEPT !.root = Replace(made.m, up,
                                     [pt EXCEPT ![k] = ArrV(Append(@.items, MapV(<<>>)))]),
                          !.cur = path, !.defined = fresh(@), !.dotted = fresh(@)]
        ELSE Failed(st)

\* a `key = value` line in the current table
PutPair(st, key, v) ==
    LET up == st.cur \o SubSeq(key, 1, Len(key) - 1)
        k == key[Len(key)]
        between == {st.cur \o SubSeq(key, 1, j) : j \in 1..(Len(key) - 1)}
        made == MakePath(st.root, up)
        pt == Lookup(made.m, up).m
    IN  IF \E b \in between : Lookup(st.root, b).ok /\ b \notin st.dotted THEN Failed(st)
        ELSE IF ~made.ok THEN Failed(st)
        ELSE IF k \in DOMAIN pt THEN Failed(st)
        ELSE [st EXCEPT !.root = Replace(made.m, up, (k :> v) @@ pt),
                        !.dotted = @ \cup between]

\* one expression applied to the decoder's state
ApplyLine(st, e) ==
    CASE e.kind = "blank" -> st
      [] e.kind = "table" -> DefineTable(st, e.path)
      [] e.kind = "array" -> AppendTable(st, e.path)
      [] e.kind = "pair"  -> PutPair(st, e.path, e.v)
      [] OTHER            -> Failed(st)

\* the lines from the j-th on, applied in order; the decoder stops at the
\* first error (each line is parsed once, each state computed once)
RECURSIVE DecodeLines(_, _, _)
DecodeLines(lines, j, st) ==
    IF j > Len(lines) \/ ~st.ok THEN st
    ELSE LET after == {ApplyLine(st, e) : e \in {ParseLine(lines[j])}}
         IN  CHOOSE r \in {DecodeLines(lines, j + 1, nx) : nx \in after} : TRUE

\* toml.Unmarshal(inputBytes, &data)
Unmarshal(inputBytes) ==
    LET st == DecodeLines(SplitLines(inputBytes), 1,
                 [ok |-> TRUE, root |-> <<>>, cur |-> <<>>, defined |-> {}, dotted |-> {}])
    IN  [ok |-> st.ok, m |-> st.root]

\* runFormattingLogic on the text the first run wrote, with the same indent
\* unit: the text is parsed; a parse error ends the run; a document without
\* keys is written as the empty text without a call of Format
Rerun ==
    /\ pc = "done" /\ result = Nil /\ runs = 1
    /\ runs' = 2
    /\ prevData' = data
    /\ prevOut' = written
    /\ written' = <<>>
    /\ writes' = 0
    /\ LET parsed == Unmarshal(written)
       IN  IF ~parsed.ok THEN pc' = "parseError" /\ data' = data
           ELSE /\ data' = parsed.m
                /\ pc' = IF DOMAIN parsed.m = {} THEN "done" ELSE "start"
    /\ UNCHANGED <<indentUnit, stack, internalBuf, err, result, proc, env>>

\* the documents of the two-run specification: few keys, every kind of value
KeysRT == {<<"a">>, <<"b">>, <<"a", ".", "b">>}
ValuesRT ==
    { IntV(1), IntV(-72), FloatV(720), FloatV(15), StrV(<<"s">>), StrV(<<>>),
      StrV(<<"\"", "\\">>), BoolV(TRUE), BoolV(FALSE), NilV,
      TimeV(2023, 1, 10, 15, 4, 5, 0), TimeV(1979, 5, 27, 7, 32, 0, 500000000),
      ArrV(<<>>), ArrV(<<IntV(1), StrV(<<"s">>)>>), ArrV(<<ArrV(<<FloatV(15)>>)>>),
      MapV(<<>>), MapV(<<"b">> :> IntV(1)), MapV(<<"b">> :> Mixed),
      ArrV(<<MapV(<<"b">> :> IntV(1)), MapV(<<"b">> :> Mixed)>>),
      ArrV(<<MapV(<<>>), MapV(<<"b">> :> MapV(X1))>>) }
DocsRT == UNION {[S -> ValuesRT] : S \in {T \in SUBSET KeysRT : Cardinality(T) <= 2}}

InitRT ==
    /\ data \in DocsRT
    /\ indentUnit \in IndentUnits
    /\ pc = "start"
    /\ stack = <<>>
    /\ internalBuf = <<>>
    /\ err = Nil
    /\ result = Nil
    /\ written = <<>>
    /\ writes = 0
    /\ runs = 1
    /\ prevData = <<>>
    /\ prevOut = <<>>
    /\ proc = NoProc
    /\ env = NoEnv

NextRT ==
    \/ Format
    \/ CategorizeKeys
    \/ SimpleKeys
    \/ ArrayTableItem
    \/ ArrayTablesDone
    \/ RegularTable
    \/ Return
    \/ Propagate
    \/ FormatFail
    \/ WriteTo
    \/ Rerun

SpecRT == InitRT /\ [][NextRT]_vars

(***************************************************************************)
(* The command toml-fmt: main, runFormattingLogic, getInput, writeOutput.   *)
(* proc.at is the place the process has reached: "main" (before getInput),  *)
(* "read" (before io.ReadAll), "parse" (before toml.Unmarshal), "format"    *)
(* (inside formatter.Format), "writeOutput" (at the entry of writeOutput),  *)
(* "writeTemp", "closeTemp", "rename" (inside it), "wrote" (writeOutput has *)
(* returned proc.werr), "returned" (runFormattingLogic has returned         *)
(* proc.err), "exit".  proc.entry tells whether the process runs main or a  *)
(* caller runs writeOutput on its own, as the package's tests do.           *)
(* proc.log lists the calls on the input: "open", "read" and "close" on the *)
(* file handle, "readStdin".  env.before is the file as it was at the start.*)
(* The deferred os.Remove of the temporary file is taken to succeed.        *)
(***************************************************************************)
NoFile == [exists |-> FALSE, bytes |-> <<>>]
FileOf(b) == [exists |-> TRUE, bytes |-> b]

\* the name of the one file
Name == <<"f">>
TempName == <<"f", ".", "t", "m", "p", "1">>

ErrStdinWrite == <<"cannot use -w flag when reading from stdin">>
SourceName(p) ==
    IF p.inputReader = "stdin" THEN <<"stdin">>
    ELSE <<"file '">> \o p.inputFilename \o <<"'">>
ErrOpen(filename) ==
    <<"opening ", "file '">> \o filename \o <<"'", ": ", "open: no such file or directory">>
ErrRead(p) == <<"reading from ">> \o SourceName(p) \o <<": ", "read: file already closed">>
ErrParse(p) == <<"parsing TOML from ">> \o SourceName(p) \o <<": ", "toml: decode error">>
ErrFormat(e) == <<"formatting TOML data: ">> \o e
ErrWriteOutput(p, e) ==
    (IF p.emptyInput THEN <<"writing empty output: ">> ELSE <<"writing output: ">>) \o e
ErrStdout == <<"writing to stdout: ", "write failed">>
ErrNoFilename == <<"internal error: writeToFile is true but inputFilename is empty">>
ErrCreateTemp == <<"creating temporary file: ", "open: permission denied">>
ErrWriteTemp == <<"writing to temporary file '">> \o TempName \o <<"': ", "write failed">>
ErrCloseTemp == <<"closing temporary file '">> \o TempName \o <<"': ", "close failed">>
ErrRename ==
    <<"renaming temporary file '">> \o TempName \o <<"' to '">> \o Name
    \o <<"': ", "rename failed">>

\* runFormattingLogic returns e; its deferred closer.Close() runs when the
\* input is a file
Returned(p, e) ==
    [p EXCEPT !.at = "returned", !.err = e,
              !.handle = IF p.inputReader = "file" THEN "closed" ELSE @,
              !.log = IF p.inputReader = "file" THEN Append(@, "close") ELSE @]

\* mutant of GetInput: -w is not checked when the input is stdin
GetInputUnchecked ==
    /\ proc.at = "main"
    /\ proc' =
         IF proc.filenameArg = <<>>
         THEN [proc EXCEPT !.at = "read", !.inputReader = "stdin"]
         ELSE IF ~env.file.exists
              THEN [proc EXCEPT !.at = "returned", !.err = ErrOpen(proc.filenameArg)]
              ELSE [proc EXCEPT !.at = "read", !.inputReader = "file",
                                !.inputFilename = proc.filenameArg,
                                !.handle = "closed",
                                !.log = @ \o <<"open", "close">>]
    /\ UNCHANGED <<data, indentUnit, runs, prevData, prevOut, env,
                   pc, stack, internalBuf, err, result, written, writes>>

\* getInput, with its deferred file.Close(), and the check of its error in
\* runFormattingLogic
GetInput ==
    /\ proc.at = "main"
    /\ proc' =
         IF proc.filenameArg = <<>>
         THEN IF proc.writeToFile
              THEN [proc EXCEPT !.at = "returned", !.err = ErrStdinWrite]
              ELSE [proc EXCEPT !.at = "read", !.inputReader = "stdin"]
         ELSE IF ~env.file.exists
              THEN [proc EXCEPT !.at = "returned", !.err = ErrOpen(proc.filenameArg)]
              ELSE [proc EXCEPT !.at = "read", !.inputReader = "file",
                                !.inputFilename = proc.filenameArg,
                                !.handle = "closed",
                                !.log = @ \o <<"open", "close">>]
    /\ UNCHANGED <<data, indentUnit, runs, prevData, prevOut, env,
                   pc, stack, internalBuf, err, result, written, writes>>

\* io.ReadAll(inputReader), and the early Close when writing back
ReadAll ==
    /\ proc.at = "read"
    /\ proc' =
         IF proc.inputReader = "stdin"
         THEN [proc EXCEPT !.at = "parse", !.inputBytes = env.stdin,
                           !.log = Append(@, "readStdin")]
         ELSE IF proc.handle = "open"
         THEN [proc EXCEPT !.at = "parse", !.inputBytes = env.file.bytes,
                           !.handle = IF proc.writeToFile THEN "closed" ELSE @,
                           !.log = IF proc.writeToFile THEN @ \o <<"read", "close">>
                                   ELSE Append(@, "read")]
         ELSE Returned([proc EXCEPT !.log = Append(@, "read")], ErrRead(proc))
    /\ UNCHANGED <<data, indentUnit, runs, prevData, prevOut, env,
                   pc, stack, internalBuf, err, result, written, writes>>

\* toml.Unmarshal, the return on its error, the empty input case up to its
\* call of writeOutput, and the call of formatter.Format
ParseToml ==
    /\ proc.at = "parse"
    /\ \E parsed \in {Unmarshal(proc.inputBytes)} :
         IF ~parsed.ok
         THEN /\ proc' = Returned(proc, ErrParse(proc))
              /\ UNCHANGED <<data, indentUnit, pc>>
         ELSE IF DOMAIN parsed.m = {}
         THEN /\ proc' = [proc EXCEPT !.at = "writeOutput", !.outputBuf = <<>>,
                                      !.emptyInput = TRUE]
              /\ UNCHANGED <<data, indentUnit, pc>>
         ELSE /\ proc' = [proc EXCEPT !.at = "format"]
              /\ data' = parsed.m
              /\ indentUnit' = IF proc.indentEnable THEN <<" ", " ">> ELSE <<>>
              /\ pc' = "start"
    /\ UNCHANGED <<runs, prevData, prevOut, env,
                   stack, internalBuf, err, result, written, writes>>

\* formatter.Format writes into outputBuf, a bytes.Buffer, which takes every
\* write
WriteToBuffer == WriteTo /\ result' # SinkError

\* formatter.Format has returned
AfterFormat ==
    /\ proc.at = "format" /\ pc = "done"
    /\ proc' = IF result # Nil THEN Returned(proc, ErrFormat(result))
               ELSE [proc EXCEPT !.at = "writeOutput", !.outputBuf = written]
    /\ UNCHANGED <<data, indentUnit, runs, prevData, prevOut, env,
                   pc, stack, internalBuf, err, result, written, writes>>

\* writeOutput to stdout; an empty buffer makes no Write call
WriteStdout ==
    /\ proc.at = "writeOutput" /\ ~proc.writeToFile
    /\ \E ok \in BOOLEAN :
         IF ok \/ proc.outputBuf = <<>>
         THEN /\ env' = [env EXCEPT !.stdout = @ \o proc.outputBuf]
              /\ proc' = [proc EXCEPT !.at = "wrote", !.werr = Nil]
         ELSE /\ env' = env
              /\ proc' = [proc EXCEPT !.at = "wrote", !.werr = ErrStdout]
    /\ UNCHANGED <<data, indentUnit, runs, prevData, prevOut,
                   pc, stack, internalBuf, err, result, written, writes>>

\* writeOutput to the file: the check of the name and os.CreateTemp
CreateTemp ==
    /\ proc.at = "writeOutput" /\ proc.writeToFile
    /\ IF proc.inputFilename = <<>>
       THEN /\ proc' = [proc EXCEPT !.at = "wrote", !.werr = ErrNoFilename]
            /\ env' = env
       ELSE \E ok \in BOOLEAN :
              IF ok THEN /\ env' = [env EXCEPT !.temp = FileOf(<<>>)]
                         /\ proc' = [proc EXCEPT !.at = "writeTemp"]
                    ELSE /\ env' = env
                         /\ proc' = [proc EXCEPT !.at = "wrote", !.werr = ErrCreateTemp]
    /\ UNCHANGED <<data, indentUnit, runs, prevData, prevOut,
                   pc, stack, internalBuf, err, result, written, writes>>

\* outputBuf.WriteTo(tempFile); on its error the file is closed, the error
\* returned and the temporary file removed
WriteTemp ==
    /\ proc.at = "writeTemp"
    /\ \E ok \in BOOLEAN :
         IF ok \/ proc.outputBuf = <<>>
         THEN /\ env' = [env EXCEPT !.temp = FileOf(proc.outputBuf)]
              /\ proc' = [proc EXCEPT !.at = "closeTemp"]
         ELSE /\ env' = [env EXCEPT !.temp = NoFile]
              /\ proc' = [proc EXCEPT !.at = "wrote", !.werr = ErrWriteTemp]
    /\ UNCHANGED <<data, indentUnit, runs, prevData, prevOut,
                   pc, stack, internalBuf, err, result, written, writes>>

\* tempFile.Close(); on its error the temporary file is removed
CloseTemp ==
    /\ proc.at = "closeTemp"
    /\ \E ok \in BOOLEAN :
         IF ok THEN /\ env' = env
                    /\ proc' = [proc EXCEPT !.at = "rename"]
               ELSE /\ env' = [env EXCEPT !.temp = NoFile]
                    /\ proc' = [proc EXCEPT !.at = "wrote", !.werr = ErrCloseTemp]
    /\ UNCHANGED <<data, indentUnit, runs, prevData, prevOut,
                   pc, stack, internalBuf, err, result, written, writes>>

\* mutant of Rename: the temporary file is left behind when the rename fails
RenameKeepsTemp ==
    /\ proc.at = "rename"
    /\ \E ok \in BOOLEAN :
         IF ok THEN /\ env' = [env EXCEPT !.file = env.temp, !.temp = NoFile]
                    /\ proc' = [proc EXCEPT !.at = "wrote", !.werr = Nil]
               ELSE /\ env' = env
                    /\ proc' = [proc EXCEPT !.at = "wrote", !.werr = ErrRename]
    /\ UNCHANGED <<data, indentUnit, runs, prevData, prevOut,
                   pc, stack, internalBuf, err, result, written, writes>>

\* os.Rename(tempFilename, inputFilename); on its error the temporary file
\* is removed
Rename ==
    /\ proc.at = "rename"
    /\ \E ok \in BOOLEAN :
         IF ok THEN /\ env' = [env EXCEPT !.file = env.temp, !.temp = NoFile]
                    /\ proc' = [proc EXCEPT !.at = "wrote", !.werr = Nil]
               ELSE /\ env' = [env EXCEPT !.temp = NoFile]
                    /\ proc' = [proc EXCEPT !.at = "wrote", !.werr = ErrRename]
    /\ UNCHANGED <<data, indentUnit, runs, prevData, prevOut,
                   pc, stack, internalBuf, err, result, written, writes>>

\* writeOutput has returned to runFormattingLogic
AfterWrite ==
    /\ proc.at = "wrote" /\ proc.entry = "main"
    /\ proc' = IF proc.werr # Nil THEN Returned(proc, ErrWriteOutput(proc, proc.werr))
               ELSE Returned(proc, Nil)
    /\ UNCHANGED <<data, indentUnit, runs, prevData, prevOut, env,
                   pc, stack, internalBuf, err, result, written, writes>>

\* mutant of Exit: the error is not reported
ExitQuiet ==
    /\ proc.at = "returned" /\ proc.entry = "main"
    /\ env' = env
    /\ proc' = [proc EXCEPT !.at = "exit", !.exit = 0]
    /\ UNCHANGED <<data, indentUnit, runs, prevData, prevOut,
                   pc, stack, internalBuf, err, result, written, writes>>

\* main after runFormattingLogic
Exit ==
    /\ proc.at = "returned" /\ proc.entry = "main"
    /\ IF proc.err # Nil
       THEN /\ env' = [env EXCEPT !.stderr = @ \o <<"Error: ">> \o proc.err \o <<"\n">>]
            /\ proc' = [proc EXCEPT !.at = "exit", !.exit = 1]
       ELSE /\ env' = env
            /\ proc' = [proc EXCEPT !.at = "exit", !.exit = 0]
    /\ UNCHANGED <<data, indentUnit, runs, prevData, prevOut,
                   pc, stack, internalBuf, err, result, written, writes>>

\* the texts on stdin and in the file: a document with a key, an array of
\* tables and a table; a table with a mixed array; a key without a value; nothing
TextOk ==
    << "b", "=", "1", "\n", "[", "[", "s", "]", "]", "\n",
       "[", "t", "]", "\n", "a", "=", "1", "\n" >>
TextMixed ==
    << "[", "t", "]", "\n",
       "a", "=", "[", "{", "x", "=", "1", "}", ",", "1", "]", "\n" >>
TextBad == << "a", "=", "\n" >>
Texts == {TextOk, TextMixed, TextBad, <<>>}
Files == {NoFile} \cup {FileOf(t) : t \in Texts}

NewProc ==
    [entry |-> "main", at |-> "main",
     indentEnable |-> FALSE, writeToFile |-> FALSE, filenameArg |-> <<>>,
     inputFilename |-> <<>>, inputReader |-> "none", handle |-> "none",
     inputBytes |-> <<>>, outputBuf |-> <<>>, emptyInput |-> FALSE,
     werr |-> Nil, err |-> Nil, exit |-> -1, log |-> <<>>]

MainProcs ==
    {[NewProc EXCEPT !.indentEnable = i, !.writeToFile = w, !.filenameArg = f] :
        i \in BOOLEAN, w \in BOOLEAN, f \in {<<>>, Name}}
DirectProcs ==
    {[NewProc EXCEPT !.entry = "writeOutput", !.at = "writeOutput",
                     !.writeToFile = w, !.inputFilename = f, !.outputBuf = b] :
        w \in BOOLEAN, f \in {<<>>, Name}, b \in {<<>>, TextOk}}
Envs ==
    {[file |-> x, before |-> x, temp |-> NoFile,
      stdin |-> t, stdout |-> <<>>, stderr |-> <<>>] : x \in Files, t \in Texts}

InitCLI ==
    /\ proc \in MainProcs \cup DirectProcs
    /\ env \in Envs
    /\ data = <<>>
    /\ indentUnit = <<>>
    /\ pc = "idle"
    /\ stack = <<>>
    /\ internalBuf = <<>>
    /\ err = Nil
    /\ result = Nil
    /\ written = <<>>
    /\ writes = 0
    /\ runs = 1
    /\ prevData = <<>>
    /\ prevOut = <<>>

NextCLI ==
    \/ GetInput
    \/ ReadAll
    \/ ParseToml
    \/ Format
    \/ CategorizeKeys
    \/ SimpleKeys
    \/ ArrayTableItem
    \/ ArrayTablesDone
    \/ RegularTable
    \/ Return
    \/ Propagate
    \/ FormatFail
    \/ WriteToBuffer
    \/ AfterFormat
    \/ WriteStdout
    \/ CreateTemp
    \/ WriteTemp
    \/ CloseTemp
    \/ Rename
    \/ AfterWrite
    \/ Exit

SpecCLI == InitCLI /\ [][NextCLI]_vars

(***************************************************************************)
(* C1.  Key ordering.  In every successful output, at every table level:    *)
(* the key/value lines right under the level's header are exactly the       *)
(* level's simple keys, in strictly ascending byte order (so every simple   *)
(* key line precedes every section of the level); no [table] section        *)
(* precedes a [[array-table]] section; the [[array-table]] keys ascend      *)
(* (equal only for the items of one array) and the [table] keys ascend      *)
(* strictly.                                                                *)
(***************************************************************************)
OwnKeysAscend(recs, h) ==
    \A j1, j2 \in Own(recs, h) : j1 < j2 => StrLess(recs[j1].text, recs[j2].text)

OwnKeysAreSimpleKeys(root, recs, h) ==
    LET t == TableAt(root, recs, h)
    IN  /\ t.ok
        /\ {recs[j].text : j \in Own(recs, h)} = {k \in DOMAIN t.m : IsSimple(t.m[k])}

SectionsOrdered(recs, h) ==
    \A c1, c2 \in Children(recs, h) :
        c1 < c2 =>
          /\ recs[c1].kind = "tableHeader" => recs[c2].kind = "tableHeader"
          /\ recs[c1].kind = recs[c2].kind =>
               \/ StrLess(KeyOf(recs, c1), KeyOf(recs, c2))
               \/ recs[c1].kind = "arrayHeader" /\ KeyOf(recs, c1) = KeyOf(recs, c2)

C1_KeyOrdering ==
    Succeeded =>
      LET recs == Recs(written)
      IN  /\ WellNested(recs)
          /\ \A h \in Levels(recs) :
               /\ OwnKeysAscend(recs, h)
               /\ OwnKeysAreSimpleKeys(data, recs, h)
               /\ SectionsOrdered(recs, h)

\* a successful render whose root level has a simple key, an array of tables and
\* a table, and a nested level with two simple keys
C1_Witness ==
    /\ Succeeded
    /\ LET recs == Recs(written)
       IN  /\ Own(recs, 0) # {}
           /\ \E c1, c2 \in Children(recs, 0) :
                recs[c1].kind = "arrayHeader" /\ recs[c2].kind = "tableHeader"

\* two simple keys at one level
C1_WitnessPairs ==
    /\ Succeeded
    /\ LET recs == Recs(written)
       IN  \E h \in Levels(recs) : Cardinality(Own(recs, h)) >= 2

(***************************************************************************)
(* C2.  Array-table homogeneity.  Whenever the document holds, under some   *)
(* key at any nesting level, an array with at least one table item and at   *)
(* least one non-table item, Format returns the error "key '<path>':        *)
(* arrays cannot mix tables and non-tables" for the dotted path of such an  *)
(* array, whatever the position of the items (runs in which the writer     *)
(* fails aside).                                                            *)
(***************************************************************************)
Contains(s, sub) ==
    \E o \in 0..(Len(s) - Len(sub)) : SubSeq(s, o + 1, o + Len(sub)) = sub

\* the key paths, from the root table t at path p, of the mixed arrays
RECURSIVE MixedPaths(_, _)
MixedPaths(t, p) ==
    UNION {
      LET v == t[k]
          here == Append(p, k)
      IN  (IF IsMixed(v) THEN {here} ELSE {})
          \cup (IF IsMap(v) THEN MixedPaths(v.m, here) ELSE {})
          \cup (IF v.kind = "array"
                THEN UNION {MixedPaths(v.items[j].m, here) :
                              j \in {n \in 1..Len(v.items) : IsMap(v.items[n])}}
                ELSE {})
      : k \in DOMAIN t }

C2_MixedArrayRejected ==
    (pc = "done" /\ result # SinkError /\ MixedPaths(data, <<>>) # {}) =>
        \E p \in MixedPaths(data, <<>>) : Contains(result, MixedError(p))

(***************************************************************************)
(* C3.  Blank lines.  In every successful output, every [table] or          *)
(* [[array-table]] header line that is not the first line comes right after *)
(* an empty line, the output does not start with an empty line and it has   *)
(* no two consecutive empty lines.                                          *)
(***************************************************************************)
C3_BlankLines ==
    Succeeded =>
      LET recs == Recs(written)
      IN  /\ Len(recs) > 0 => recs[1].len # 0
          /\ \A j \in 1..(Len(recs) - 1) : ~(recs[j].len = 0 /\ recs[j + 1].len = 0)
          /\ \A j \in Headers(recs) : j > 1 => recs[j - 1].len = 0

\* an output that starts with the first item of an array of tables, goes on
\* with a further item of it, and then with a section of the other kind
C3_Witness ==
    /\ Succeeded
    /\ LET recs == Recs(written)
       IN  /\ Len(recs) > 0 /\ recs[1].kind = "arrayHeader"
           /\ \E j \in Headers(recs) :
                j > 1 /\ recs[j].kind = "arrayHeader" /\ recs[j].text = recs[1].text
           /\ \E j \in Headers(recs) : recs[j].kind = "tableHeader"

(***************************************************************************)
(* C4.  Header paths.  In every successful output the [table] headers are   *)
(* exactly the dot-joined full paths, from the document root, of the        *)
(* document's tables, and the [[array-table]] headers those of its arrays   *)
(* of tables, at every depth.                                               *)
(***************************************************************************)
\* the paths of the sections of kind `want` ("map" or "array") under table t
RECURSIVE SectionPaths(_, _, _)
SectionPaths(t, p, want) ==
    UNION {
      LET v == t[k]
          here == Append(p, k)
      IN  IF IsMap(v)
            THEN (IF want = "map" THEN {here} ELSE {})
                 \cup SectionPaths(v.m, here, want)
          ELSE IF IsArrayOfTables(v)
            THEN (IF want = "array" THEN {here} ELSE {})
                 \cup UNION {SectionPaths(v.items[j].m, here, want) : j \in 1..Len(v.items)}
          ELSE {}
      : k \in DOMAIN t }

MaxLen(S) == IF S = {} THEN 0 ELSE CHOOSE n \in {Len(k) : k \in S} : \A k \in S : Len(k) <= n

C5_Alignment ==
    Succeeded =>
      LET recs == Recs(written)
      IN  \A h \in Levels(recs) :
            LET t == TableAt(data, recs, h)
                longest == MaxLen({k \in DOMAIN t.m : IsSimple(t.m[k])})
            IN  /\ t.ok
                /\ \A j \in Own(recs, h) :
                     recs[j].eq = Len(recs[j].indent) + longest + 1

\* an indented level with simple keys of two lengths, and a level whose section
\* key is longer than its simple keys
C5_Witness ==
    /\ Succeeded
    /\ LET recs == Recs(written)
       IN  /\ \E h \in Headers(recs) : \E j1, j2 \in Own(recs, h) :
                /\ Len(recs[j1].text) < Len(recs[j2].text)
                /\ Len(recs[j1].indent) > 0
           /\ \E h \in Levels(recs) : \E j \in Own(recs, h) : \E c \in Children(recs, h) :
                Len(KeyOf(recs, c)) > MaxLen({recs[m].text : m \in Own(recs, h)})

(***************************************************************************)
(* C6.  No partial output.  Whenever Format returns an error caused by the  *)
(* document, the caller's writer has received no byte and no Write call.    *)
(***************************************************************************)
C6_NoPartialOutput ==
    (pc = "done" /\ result # Nil /\ result # SinkError) =>
        written = <<>> /\ writes = 0

\* a failure after earlier sections were rendered into the internal buffer
C6_Witness ==
    /\ pc = "done" /\ result # Nil /\ result # SinkError
    /\ internalBuf # <<>>

(***************************************************************************)
(* C7.  Idempotence.  For every document and every indent unit, the text of *)
(* a successful run parses as TOML, and formatting the parsed document with *)
(* the same indent unit writes the same bytes as the first run.             *)
(***************************************************************************)
C7_Idempotent ==
    (runs = 2 /\ pc \in {"done", "parseError"} /\ result # SinkError) =>
        pc = "done" /\ result = Nil /\ written = prevOut

(***************************************************************************)
(* C8.  Data preservation.  For every document, the text of a successful    *)
(* run parses as TOML to the same tree: the same keys at the same paths     *)
(* with the same values of the same types.                                  *)
(***************************************************************************)
C8_DataPreserved ==
    runs = 2 => pc # "parseError" /\ data = prevData

(***************************************************************************)
(* C9.  Empty document. Formatting a root table without keys, with any     *)
(* indent unit, returns nil and writes nothing.                             *)
(***************************************************************************)
C9_EmptyDocument ==
    (pc = "done" /\ DOMAIN data = {}) =>
        result = Nil /\ written = <<>> /\ internalBuf = <<>>

C9_Witness == pc = "done" /\ DOMAIN data = {} /\ indentUnit # <<>>

(***************************************************************************)
(* C10.  Item order.  In every successful output, for every array of        *)
(* tables there are as many [[path]] sections under its level as the array  *)
(* has items, and the key/value lines right under the n-th of them are the  *)
(* simple keys of the n-th item with their rendered values.                 *)
(***************************************************************************)
OwnPairs(recs, h) == {<<recs[j].text, recs[j].value>> : j \in Own(recs, h)}
SimplePairs(t) == {<<k, formatTomlValue(t[k])>> : k \in {kk \in DOMAIN t : IsSimple(t[kk])}}

C10_ItemOrder ==
    Succeeded =>
      LET recs == Recs(written)
      IN  \A h \in Levels(recs) :
            LET t == TableAt(data, recs, h)
            IN  /\ t.ok
                /\ recs # <<>> /\ h # 0 /\ recs[h].kind = "arrayHeader" =>
                     OwnPairs(recs, h) = SimplePairs(t.m)
                /\ \A k \in DOMAIN t.m :
                     IsArrayOfTables(t.m[k]) =>
                       Cardinality({c \in Children(recs, h) :
                          recs[c].kind = "arrayHeader" /\ KeyOf(recs, c) = k})
                         = Len(t.m[k].items)

\* an array of two different tables was rendered
C10_Witness ==
    /\ Succeeded
    /\ \E k \in DOMAIN data :
         /\ IsArrayOfTables(data[k]) /\ Len(data[k].items) >= 2
         /\ data[k].items[1] # data[k].items[2]

(***************************************************************************)
(* C11.  Indentation.  In every successful output the header of a section   *)
(* whose path has n segments is prefixed by the indent unit n-1 times, the  *)
(* key/value lines of the section by the indent unit n times, the root's    *)
(* key/value lines and headers by nothing; with the empty indent unit no    *)
(* line starts with whitespace.                                             *)
(***************************************************************************)
RECURSIVE Times(_, _)
Times(u, n) == IF n <= 0 THEN <<>> ELSE u \o Times(u, n - 1)

C11_Indentation ==
    Succeeded =>
      LET recs == Recs(written)
      IN  /\ \A h \in Headers(recs) :
               recs[h].indent = Times(indentUnit, Len(PathOf(recs, h)) - 1)
          /\ \A h \in Levels(recs) : \A j \in Own(recs, h) :
               recs[j].indent = Times(indentUnit, Len(PathOf(recs, h)))
          /\ indentUnit = <<>> => \A j \in 1..Len(recs) : recs[j].indent = <<>>

\* an indented render with a key/value line three sections deep
C11_Witness ==
    /\ Succeeded /\ indentUnit # <<>>
    /\ LET recs == Recs(written)
       IN  \E h \in Headers(recs) :
             /\ Len(PathOf(recs, h)) >= 3
             /\ Own(recs, h) # {}
             /\ \E g \in Headers(recs) : recs[g].kind = "arrayHeader" /\ g < h

(***************************************************************************)
(* C12.  Literals.  Every root key/value line of a successful output        *)
(* carries the fixed literal of its value: the decimal digits of an         *)
(* integer, true or false, two single quotes for nil, the double-quoted     *)
(* string, [] for the empty array, and for a simple array its items'        *)
(* literals joined by ", " between [ and ], at every nesting of arrays.     *)
(***************************************************************************)
RECURSIVE Decimal(_)
Decimal(n) ==
    IF n < 0 THEN <<"-">> \o Decimal(-n)
    ELSE IF n < 10 THEN <<Ascii[Ord("0") + n]>>
    ELSE Decimal(n \div 10) \o <<Ascii[Ord("0") + (n % 10)]>>

RECURSIVE Escaped(_)
Escaped(s) ==
    IF s = <<>> THEN <<>>
    ELSE (IF s[1] \in {"\"", "\\"} THEN <<"\\", s[1]>> ELSE <<s[1]>>) \o Escaped(Tail(s))

\* the kinds the statement names
RECURSIVE Named(_)
Named(v) ==
    \/ v.kind \in {"int", "bool", "nil", "string"}
    \/ v.kind = "array" /\ \A j \in 1..Len(v.items) : Named(v.items[j])

RECURSIVE Literal(_)
Literal(v) ==
    CASE v.kind = "int"    -> Decimal(v.n)
      [] v.kind = "bool"   -> IF v.b THEN <<"t", "r", "u", "e">> ELSE <<"f", "a", "l", "s", "e">>
      [] v.kind = "nil"    -> <<"'", "'">>
      [] v.kind = "string" -> <<"\"">> \o Escaped(v.s) \o <<"\"">>
      [] v.kind = "array"  ->
           IF v.items = <<>> THEN <<"[", "]">>
           ELSE <<"[">> \o Literal(v.items[1])
                \o Join([j \in 1..(Len(v.items) - 1) |->
                           <<",", " ">> \o Literal(v.items[j + 1])], <<>>)
                \o <<"]">>

C12_Literals ==
    Succeeded =>
      LET recs == Recs(written)
      IN  \A j \in Own(recs, 0) :
            /\ recs[j].text \in DOMAIN data
            /\ Named(data[recs[j].text]) =>
                 recs[j].value = Literal(data[recs[j].text])

\* a first run that wrote an array of an integer and a string, and a nil
C12_Witness ==
    /\ Succeeded /\ runs = 1
    /\ \E k1, k2 \in DOMAIN data :
         /\ data[k1] = ArrV(<<IntV(1), StrV(<<"s">>)>>)
         /\ data[k2] = NilV
    /\ Cardinality(Own(Recs(written), 0)) = 2

(***************************************************************************)
(* C13.  No placeholder.  No successful output holds the placeholder that   *)
(* the value renderer writes for a table: tables and arrays of tables never *)
(* reach the value renderer, also not from inside a simple array.           *)
(***************************************************************************)
C13_NoPlaceholder ==
    Succeeded => ~Contains(written, UnknownMap)

(***************************************************************************)
(* C14.  Error context.  The error Format returns for a mixed array is the  *)
(* classifier's error for that array's path, wrapped once by every section  *)
(* that encloses the array, innermost first, with the section's full dotted *)
(* path and, for an item of an array of tables, its index; and from the     *)
(* step that finds the error on, nothing more is rendered.                  *)
(***************************************************************************)
\* the errors of the mixed arrays of table t at path p, each with the
\* context of the sections between t and the array
RECURSIVE ExpectedErrors(_, _)
ExpectedErrors(t, p) ==
    UNION {
      LET v == t[k]
          here == Append(p, k)
      IN  IF IsMixed(v) THEN {MixedError(here)}
          ELSE IF IsMap(v)
            THEN {WrapTableError(here, e) : e \in ExpectedErrors(v.m, here)}
          ELSE IF IsArrayOfTables(v)
            THEN UNION {{WrapArrayError(here, j - 1, e) :
                           e \in ExpectedErrors(v.items[j].m, here)} :
                        j \in 1..Len(v.items)}
          ELSE {}
      : k \in DOMAIN t }

C14_ErrorContext ==
    [][ /\ err' # Nil => internalBuf' = internalBuf
        /\ (pc # "done" /\ pc' = "done" /\ result' # Nil /\ result' # SinkError)
             => result' \in ExpectedErrors(data, <<>>) ]_vars

\* an error wrapped by a table and by an item of an array of tables, returned
\* after earlier lines were rendered
C14_Witness ==
    /\ pc = "done" /\ result # Nil /\ internalBuf # <<>>
    /\ \E j \in 1..Len(result) : result[j] = "formatting table '"
    /\ \E j \in 1..Len(result) : result[j] = "formatting array table '"

(***************************************************************************)
(* C15.  Empty arrays.  At every table level an empty array is a simple     *)
(* key: a successful output has the line `<key> = []` among the level's     *)
(* key/value lines and no [[header]] for the key, and no error that Format  *)
(* returns is about the key of an empty array.                              *)
(***************************************************************************)
\* the key paths of the empty arrays of table t at path p
RECURSIVE EmptyArrayPaths(_, _)
EmptyArrayPaths(t, p) ==
    UNION {
      LET v == t[k]
          here == Append(p, k)
      IN  IF v = ArrV(<<>>) THEN {here}
          ELSE IF IsMap(v) THEN EmptyArrayPaths(v.m, here)
          ELSE IF IsArrayOfTables(v)
            THEN UNION {EmptyArrayPaths(v.items[j].m, here) : j \in 1..Len(v.items)}
          ELSE {}
      : k \in DOMAIN t }

C15_EmptyArray ==
    /\ Succeeded =>
         LET recs == Recs(written)
         IN  \A h \in Levels(recs) :
               LET t == TableAt(data, recs, h)
               IN  /\ t.ok
                   /\ \A k \in {e \in DOMAIN t.m : t.m[e] = ArrV(<<>>)} :
                        /\ \E j \in Own(recs, h) :
                             recs[j].text = k /\ recs[j].value = <<"[", "]">>
                        /\ \A c \in Children(recs, h) : KeyOf(recs, c) # k
    /\ (pc = "done" /\ result # Nil /\ result # SinkError) =>
         \A p \in EmptyArrayPaths(data, <<>>) :
            /\ ~Contains(result, MixedError(p))
            /\ ~Contains(result, ArrayItemError(p))
            /\ ~Contains(result, TableItemError(p))

\* an indented render with an empty array three sections deep
C15_Witness ==
    /\ Succeeded /\ indentUnit # <<>>
    /\ \E p \in EmptyArrayPaths(data, <<>>) : Len(p) >= 4
    /\ LET recs == Recs(written)
       IN  \E j \in 1..Len(recs) :
             recs[j].value = <<"[", "]">> /\ Len(recs[j].indent) >= 3 * Len(indentUnit)

(***************************************************************************)
(* C16.  Sink failure.  The document rendered and the writer rejected the   *)
(* write: pc is "done", formatMap returned no error, Write was called and   *)
(* nothing was taken.                                                       *)
(***************************************************************************)
SinkRejected == pc = "done" /\ err = Nil /\ writes > 0 /\ written = <<>>

\* C16 as amended: when the writer rejects the write, Format returns the
\* writer's own error, unchanged and without added context, and Write was
\* called exactly once; Write is never called more than once
C16_SinkErrorAsIs ==
    /\ writes <= 1
    /\ SinkRejected => result = SinkError

\* C16 as stated: when the writer rejects the write, Format returns the
\* writer's error wrapped with context that names the destination, and Write
\* is never called more than once
C16_SinkErrorWrapped ==
    /\ writes <= 1
    /\ SinkRejected => (Contains(result, SinkError) /\ Len(result) > Len(SinkError))

\* a rejected write of a render with sections
C16_Witness ==
    /\ SinkRejected /\ result = SinkError
    /\ Headers(Recs(internalBuf)) # {}

C18_ReadWhileOpen ==
    /\ \A j \in 1..Len(proc.log) :
         proc.log[j] = "read" =>
           /\ \E i \in 1..(j - 1) : proc.log[i] = "open"
           /\ \A i \in 1..(j - 1) : proc.log[i] # "close"
    /\ (proc.at = "exit" /\ proc.inputReader = "file") => proc.err # ErrRead(proc)

(***************************************************************************)
(* C19.  Failure before the write-back.  With -w and a file name, when      *)
(* opening, reading, parsing or formatting has failed, nothing is written   *)
(* to stdout, no temporary file exists, the source file is as it was, and   *)
(* the process ends with status 1 and "Error: <the error>" on stderr.       *)
(***************************************************************************)
FailedBeforeWrite ==
    /\ proc.entry = "main" /\ proc.writeToFile /\ proc.filenameArg # <<>>
    /\ proc.at \in {"returned", "exit"} /\ proc.err # Nil
    /\ proc.err[1] \in {"opening ", "reading from ", "parsing TOML from ",
                        "formatting TOML data: "}

C20_WriteNeedsFile ==
    (proc.entry = "main" /\ proc.writeToFile /\ proc.filenameArg = <<>>) =>
       /\ proc.log = <<>> /\ proc.inputBytes = <<>>
       /\ env.stdout = <<>> /\ ~env.temp.exists /\ env.file = env.before
       /\ proc.at \in {"main", "returned", "exit"}
       /\ proc.at # "main" => proc.err = ErrStdinWrite
       /\ proc.at = "exit" =>
            proc.exit = 1 /\ env.stderr = <<"Error: ">> \o ErrStdinWrite \o <<"\n">>

\* the process has ended; there was input on stdin and a file
C20_Witness ==
    /\ proc.entry = "main" /\ proc.writeToFile /\ proc.filenameArg = <<>>
    /\ proc.at = "exit" /\ env.stdin = TextOk /\ env.file.exists

(***************************************************************************)
(* C21.  Empty input.  When the command has ended and its input (the file   *)
(* named on the command line, stdin when none is named) held an empty       *)
(* document and the surroundings refused no write, the status is 0, stderr  *)
(* is empty, and the output is empty: nothing on stdout without -w, and     *)
(* with -w the source file is an empty file.                                *)
(***************************************************************************)
EmptyInputGiven ==
    /\ proc.entry = "main" /\ proc.at = "exit" /\ proc.werr = Nil
    /\ IF proc.filenameArg = <<>>
       THEN ~proc.writeToFile /\ env.stdin = <<>>
       ELSE env.before = FileOf(<<>>)

C21_EmptyInput ==
    EmptyInputGiven =>
      /\ proc.exit = 0 /\ env.stderr = <<>>
      /\ env.stdout = <<>>
      /\ proc.writeToFile => (env.file = FileOf(<<>>) /\ ~env.temp.exists)

(***************************************************************************)
(* C22.  The input is only read.  No step of Format changes the document;   *)
(* every active formatMap call holds the table of the document that its     *)
(* caller's loop stands at, under the path of that table, and the array     *)
(* data it has classified are the document's arrays; and no step changes    *)
(* the table or the path of a call that stays active.                       *)
(***************************************************************************)
\* the table and the path the j-th active call was made with
FrameArg(j) ==
    IF j = 1 THEN [dataMap |-> data, currentPath |-> <<>>]
    ELSE LET f == stack[j - 1]
             k == IF f.at = "arrays" THEN f.sortedArrayTableKeys[f.kidx]
                  ELSE f.tableKeys[f.kidx]
         IN  [dataMap |-> IF f.at = "arrays" THEN f.dataMap[k].items[f.i + 1].m
                          ELSE f.dataMap[k].m,
              currentPath |-> Append(f.currentPath, k)]

FramesReadInput ==
    \A j \in 1..Len(stack) :
        /\ stack[j].dataMap = FrameArg(j).dataMap
        /\ stack[j].currentPath = FrameArg(j).currentPath
        /\ \A k \in DOMAIN stack[j].arrayTableKeys :
             stack[j].arrayTableKeys[k] = stack[j].dataMap[k].items

C22_InputUnchanged ==
    [][ /\ data' = data
        /\ FramesReadInput'
        /\ \A j \in 1..Len(stack) :
             j <= Len(stack') =>
               /\ stack'[j].dataMap = stack[j].dataMap
               /\ stack'[j].currentPath = stack[j].currentPath ]_vars

\* a failing call: lines were rendered, then a nested call found a mixed array
\* and its error came back through the section that made the call
C22_Witness ==
    /\ pc = "done" /\ result # Nil /\ result # SinkError
    /\ internalBuf # <<>>
    /\ \E j \in 1..Len(result) :
         result[j] \in {"formatting table '", "formatting array table '"}

(***************************************************************************)
(* C23.  Partition.  In every formatMap call that has classified its keys,  *)
(* the simple keys, the table keys and the array-table keys are pairwise    *)
(* disjoint, hold no key twice and together are the keys of the table; and  *)
(* in every successful output every key of every table is rendered exactly  *)
(* once at its own level: a simple key by one key/value line, a sub-table   *)
(* by one [path] header, an array of tables by as many [[path]] headers as  *)
(* it has items, and by nothing of the other kinds.                         *)
(***************************************************************************)
Range(s) == {s[j] : j \in 1..Len(s)}

Partitioned(f) ==
    LET S == Range(f.simpleKeys)
        T == Range(f.tableKeys)
        A == DOMAIN f.arrayTableKeys
    IN  /\ S \cap T = {} /\ S \cap A = {} /\ T \cap A = {}
        /\ S \cup T \cup A = DOMAIN f.dataMap
        /\ Cardinality(S) = Len(f.simpleKeys) /\ Cardinality(T) = Len(f.tableKeys)

\* the numbers of key/value lines, [k] headers and [[k]] headers for key k at level h
Rendered(recs, h, k) ==
    [pairs  |-> Cardinality({j \in Own(recs, h) : recs[j].text = k}),
     tables |-> Cardinality({c \in Children(recs, h) :
                   recs[c].kind = "tableHeader" /\ KeyOf(recs, c) = k}),
     arrays |-> Cardinality({c \in Children(recs, h) :
                   recs[c].kind = "arrayHeader" /\ KeyOf(recs, c) = k})]

C23_Partition ==
    /\ \A j \in 1..Len(stack) : stack[j].at # "categorize" => Partitioned(stack[j])
    /\ Succeeded =>
         LET recs == Recs(written)
         IN  \A h \in Levels(recs) :
               LET t == TableAt(data, recs, h)
               IN  /\ t.ok
                   /\ \A k \in DOMAIN t.m :
                        Rendered(recs, h, k) =
                          IF IsMap(t.m[k])
                            THEN [pairs |-> 0, tables |-> 1, arrays |-> 0]
                          ELSE IF IsArrayOfTables(t.m[k])
                            THEN [pairs |-> 0, tables |-> 0, arrays |-> Len(t.m[k].items)]
                          ELSE [pairs |-> 1, tables |-> 0, arrays |-> 0]

\* a successful render of a root with an array of two tables and a table that
\* holds a simple key and a sub-table
C23_Witness ==
    /\ Succeeded
    /\ \E k1, k2 \in DOMAIN data :
         /\ IsArrayOfTables(data[k1]) /\ Len(data[k1].items) = 2
         /\ IsMap(data[k2])
         /\ \E x, y \in DOMAIN data[k2].m :
              IsSimple(data[k2].m[x]) /\ IsMap(data[k2].m[y])

(***************************************************************************)
(* C24.  Line termination.  In every state of a run, so at every point      *)
(* where formatArrayTables or formatRegularTables inspects the buffer, the  *)
(* buffer is empty or ends with one newline and not with two; and the text  *)
(* a successful run has written is empty or ends with one newline and not   *)
(* with two.                                                                *)
(***************************************************************************)
EndsLine(b) == b = <<>> \/ (b[Len(b)] = "\n" /\ ~HasBlankSuffix(b))

C24_LineTermination ==
    /\ pc = "run" => EndsLine(internalBuf)
    /\ Succeeded => EndsLine(written)

\* formatRegularTables inspects a buffer that holds sections already
C24_Witness ==
    /\ pc = "run" /\ err = Nil /\ stack # <<>>
    /\ Top.at = "tables" /\ Top.kidx <= Len(Top.tableKeys)
    /\ Contains(internalBuf, <<"\n", "\n">>)

(***************************************************************************)
(* C25.  Empty nested tables.  In every successful output every table       *)
(* without keys below the root has its header and no body: the [path]       *)
(* headers whose table is empty are those of the document's empty           *)
(* sub-tables and the [[path]] headers whose table is empty those of the    *)
(* empty items of its arrays of tables; such a header line is exactly the   *)
(* indent, the bracketed full path and nothing else; and it is the last     *)
(* line or is followed by one empty line and then by a header.              *)
(***************************************************************************)
\* the paths of the tables without keys under table t at path p: of the
\* sub-tables with want = "map", of the items of arrays of tables with "array"
RECURSIVE EmptyTablePaths(_, _, _)
EmptyTablePaths(t, p, want) ==
    UNION {
      LET v == t[k]
          here == Append(p, k)
      IN  IF IsMap(v)
            THEN (IF want = "map" /\ DOMAIN v.m = {} THEN {here} ELSE {})
                 \cup EmptyTablePaths(v.m, here, want)
          ELSE IF IsArrayOfTables(v)
            THEN UNION {(IF want = "array" /\ DOMAIN v.items[j].m = {} THEN {here} ELSE {})
                        \cup EmptyTablePaths(v.items[j].m, here, want) :
                        j \in 1..Len(v.items)}
          ELSE {}
      : k \in DOMAIN t }

EmptyLevels(root, recs, kind) ==
    {h \in Headers(recs) :
        /\ recs[h].kind = kind
        /\ TableAt(root, recs, h).ok /\ DOMAIN TableAt(root, recs, h).m = {}}

C25_EmptyNestedTable ==
    Succeeded =>
      LET recs == Recs(written)
          tables == EmptyLevels(data, recs, "tableHeader")
          arrays == EmptyLevels(data, recs, "arrayHeader")
      IN  /\ {PathOf(recs, h) : h \in tables} = EmptyTablePaths(data, <<>>, "map")
          /\ {PathOf(recs, h) : h \in arrays} = EmptyTablePaths(data, <<>>, "array")
          /\ \A h \in tables \cup arrays :
               /\ recs[h].indent = Times(indentUnit, Len(PathOf(recs, h)) - 1)
               /\ recs[h].len = Len(recs[h].indent) + Len(recs[h].text)
                                + (IF h \in tables THEN 2 ELSE 4)
               /\ \/ h = Len(recs)
                  \/ /\ h + 2 <= Len(recs)
                     /\ recs[h + 1].len = 0
                     /\ IsHeader(recs[h + 2])

\* an indented render with an empty nested table and an empty item of an
\* array of tables, each followed by a further section
C25_Witness ==
    /\ Succeeded /\ indentUnit # <<>>
    /\ LET recs == Recs(written)
       IN  /\ \E h \in EmptyLevels(data, recs, "tableHeader") :
                h < Len(recs) /\ Len(PathOf(recs, h)) >= 2
           /\ \E h \in EmptyLevels(data, recs, "arrayHeader") : h < Len(recs)

(***************************************************************************)
(* C26.  The defensive guards.  For every document, no error on its way up  *)
(* the calls and no error Format returns is, or wraps, one of the two       *)
(* "internal error:" errors of the section writers.                         *)
(***************************************************************************)
IsInternal(e) ==
    \E j \in 1..Len(e) :
        e[j] \in {ArrayItemError(<<>>)[1], TableItemError(<<>>)[1]}

C26_NoInternalError ==
    ~IsInternal(err) /\ ~IsInternal(result)

\* both guards were passed, by the two items of an array of tables and by a
\* table, before the run failed inside the table
C26_Witness ==
    /\ pc = "done" /\ result # Nil /\ result # SinkError
    /\ result[1] = "formatting table '"
    /\ \E k \in DOMAIN data : IsArrayOfTables(data[k]) /\ Len(data[k].items) = 2

(***************************************************************************)
(* C27.  Headers of nested tables.  A table nested in another section, at   *)
(* a path of n >= 2 keys, rendered with a non-empty indent unit.            *)
(***************************************************************************)
NestedTablePaths == {p \in SectionPaths(data, <<>>, "map") : Len(p) >= 2}

\* the header lines of a table at path p that carry the name `name`: at n - 1
\* indent units, with the table's key/value lines at n units
HeaderLines(recs, p, name) ==
    {j \in Headers(recs) :
        /\ recs[j].kind = "tableHeader"
        /\ recs[j].text = name
        /\ recs[j].indent = Times(indentUnit, Len(p) - 1)
        /\ \A o \in Own(recs, j) : recs[o].indent = Times(indentUnit, Len(p))}

MixedKeys(t) == {k \in DOMAIN t : IsMixed(t[k])}

C29_ClassifyFirst ==
    [][ (pc = "run" /\ err = Nil /\ stack # <<>> /\ Top.at = "categorize"
           /\ MixedKeys(Top.dataMap) # {})
        => /\ err' = MixedError(Append(Top.currentPath,
                        SortStrings(MixedKeys(Top.dataMap))[1]))
           /\ internalBuf' = internalBuf
           /\ stack' = Pop(stack) ]_vars

====
